---- MODULE Spec2Model ----
(***************************************************************************)
(* The completion-compatibility layer of src/poly_completion.py: the       *)
(* gateway completion(), the history sanitizer _sanitize_messages(), and   *)
(* the call-request parser _parse_tool_calls_from_content().               *)
(*                                                                         *)
(* Text is a sequence of tokens (strings).  Python's `a in b` on strings   *)
(* is contiguous-subsequence containment, `+` is concatenation.            *)
(* A message is a record; `keys` is the set of keys its dict holds, and    *)
(* `none` says that the value under "content" is None.                     *)
(***************************************************************************)
EXTENDS Integers, Sequences, FiniteSets, TLC

VARIABLES
    \* _sanitize_messages called on its own
    messages,            \* the caller's transcript
    add_tool_reminder,   \* the flag of the call
    san_pc,              \* "build" | "returned" | "raised"
    sanitized_messages,  \* the list returned
    \* _parse_tool_calls_from_content called on its own
    content,             \* the text handed to the parser
    parse_pc,            \* "build" | "returned" | "raised"
    tool_calls,          \* the list returned
    \* completion()
    pc,                  \* position inside completion()
    kwargs,              \* the caller's arguments, as passed
    caller_messages,     \* the caller's list of messages, as it is now
    provider_calls,      \* requests handed to litellm.completion, in order
    response,            \* what litellm.completion returned
    provider_error,      \* the exception litellm.completion raised, "" if none
    result,              \* what completion() returned
    has_recent_tools,    \* local of completion()
    modified_messages,   \* local: the sanitized transcript, then with the prompt
    call_kwargs,         \* local: the arguments for litellm.completion
    parsed_tool_calls,   \* local: what the parser returned
    uuid_state,          \* number of uuid4() values drawn so far
    issued,              \* ids of the tool calls earlier invocations returned
    invocations,         \* invocations completed so far
    \* completion() called from several threads
    frames,              \* each thread's call of completion(): its locals
    \* chat_loop() of src/cli.py
    history,             \* the conversation the host keeps
    host_pc,             \* "off" | "prompt" | "loop"
    consecutive_tool_calls, \* local of chat_loop()
    host_invocations,    \* calls of completion() for the current user input
    host_calls,          \* calls of completion() in this session
    host_inputs,         \* lines the user has entered, "reset" apart
    forwarded,           \* the transcript the last call handed to the provider
    round_at,            \* index in history of the assistant message of the
                         \* last tool round not yet followed by a call, or 0
    seen_round           \* that index, for the round the last call followed

san_vars   == <<messages, add_tool_reminder, san_pc, sanitized_messages>>
parse_vars == <<content, parse_pc, tool_calls>>
gw_locals  == <<pc, kwargs, caller_messages, provider_calls, response,
                provider_error, result, has_recent_tools, modified_messages,
                call_kwargs, parsed_tool_calls, issued, invocations>>
gw_vars    == <<gw_locals, uuid_state>>
conc_vars  == <<frames>>
host_vars  == <<history, host_pc, consecutive_tool_calls, host_invocations,
                host_calls, host_inputs, forwarded, round_at, seen_round>>
vars       == <<san_vars, parse_vars, gw_vars, conc_vars, host_vars>>

---------------------------------------------------------------------------
(* Bounds *)

\* messages of a transcript that may be any message of the alphabet
MaxCore == 3
\* plain user messages that may follow them
MaxPad == 10

---------------------------------------------------------------------------
(* Strings *)

\* Python: s in t
IsSubstr(s, t) ==
    \E i \in 0..(Len(t) - Len(s)) : SubSeq(t, i + 1, i + Len(s)) = s

\* Python: t.endswith(s)
EndsWith(t, s) ==
    /\ Len(s) <= Len(t)
    /\ SubSeq(t, Len(t) - Len(s) + 1, Len(t)) = s

\* Python: messages[-n:] if len(messages) > n else messages
LastN(s, n) == IF Len(s) > n THEN SubSeq(s, Len(s) - n + 1, Len(s)) ELSE s

RECURSIVE JoinWith(_, _)
\* Python: sep.join(parts), parts a list of texts
JoinWith(sep, parts) ==
    IF parts = <<>> THEN <<>>
    ELSE IF Len(parts) = 1 THEN parts[1]
    ELSE parts[1] \o sep \o JoinWith(sep, Tail(parts))

---------------------------------------------------------------------------
(* JSON, as far as tool results need it *)

\* json.dumps({tool_name: result}, default=str) for the tools the host runs:
\* get_task returns a task, list_goals raises and the host keeps the error
GetTaskOutcome == "{\"get_task\": {\"name\": \"t1\"}}"
ListGoalsOutcome == "{\"list_goals\": \"Error: not found\"}"

\* texts json.loads accepts, with the text json.dumps gives for the value
JsonTable ==
    [t \in {"{\"name\": \"t1\"}", "{\"name\":\"t1\"}", "[]", "null",
            GetTaskOutcome, ListGoalsOutcome} |->
        IF t = "{\"name\":\"t1\"}" THEN "{\"name\": \"t1\"}" ELSE t]

\* the value a tool message's content stands for (lines 178-192):
\* json.loads(content), or content itself when that raises
\* (JSONDecodeError for a text that is no JSON, TypeError for None)
ToolContentValue(m) ==
    IF m.none THEN [kind |-> "json", text |-> <<"null">>]
    ELSE IF Len(m.content) = 1 /\ m.content[1] \in DOMAIN JsonTable
    THEN [kind |-> "json", text |-> <<JsonTable[m.content[1]]>>]
    ELSE [kind |-> "str", text |-> m.content]

\* json.dumps(value, default=str)
json_dumps(v) ==
    IF v.kind = "json" THEN v.text ELSE <<"\"">> \o v.text \o <<"\"">>

---------------------------------------------------------------------------
(* Messages *)

ToolCall(id, name) == [id |-> id, name |-> name, arguments |-> "{}"]

Msg(role, text) ==
    [keys |-> {"role", "content"}, role |-> role, content |-> text,
     none |-> FALSE, tool_calls |-> <<>>, tool_call_id |-> ""]

\* "content": None
MsgNone(role) ==
    [keys |-> {"role", "content"}, role |-> role, content |-> <<>>,
     none |-> TRUE, tool_calls |-> <<>>, tool_call_id |-> ""]

\* no "content" key
MsgBare(role) ==
    [keys |-> {"role"}, role |-> role, content |-> <<>>,
     none |-> FALSE, tool_calls |-> <<>>, tool_call_id |-> ""]

WithCalls(m, calls) ==
    [m EXCEPT !.keys = @ \cup {"tool_calls"}, !.tool_calls = calls]

ToolMsg(id, text) ==
    [keys |-> {"role", "content", "tool_call_id"}, role |-> "tool",
     content |-> text, none |-> FALSE, tool_calls |-> <<>>,
     tool_call_id |-> id]

\* Python: msg.get("tool_calls") is truthy
HasToolCalls(m) == "tool_calls" \in m.keys /\ m.tool_calls # <<>>

---------------------------------------------------------------------------
(* _find_tool_responses, _find_recent_tool_calls, _has_recent_tool_calls *)

RECURSIVE AllToolCalls(_)
\* the tool calls of the assistant messages that carry some, in order
AllToolCalls(msgs) ==
    IF msgs = <<>> THEN <<>>
    ELSE LET m == Head(msgs)
         IN  (IF m.role = "assistant" /\ HasToolCalls(m)
              THEN m.tool_calls ELSE <<>>) \o AllToolCalls(Tail(msgs))

\* tool_calls_by_id: a later call with the same id overwrites an earlier one
tool_calls_by_id(msgs) ==
    LET all == AllToolCalls(msgs)
        last(id) == CHOOSE i \in DOMAIN all :
                        /\ all[i].id = id
                        /\ \A j \in DOMAIN all : all[j].id = id => j <= i
    IN  [id \in {all[i].id : i \in DOMAIN all} |-> all[last(id)].name]

\* _find_tool_responses: tool_call_id -> {name, content}; a later tool
\* message with the same id overwrites an earlier one
_find_tool_responses(msgs) ==
    LET by_id == tool_calls_by_id(msgs)
        answers(i) == /\ msgs[i].role = "tool"
                      /\ "tool_call_id" \in msgs[i].keys
                      /\ "content" \in msgs[i].keys
                      /\ msgs[i].tool_call_id \in DOMAIN by_id
        ids == {msgs[i].tool_call_id : i \in {k \in DOMAIN msgs : answers(k)}}
        last(id) == CHOOSE i \in DOMAIN msgs :
                        /\ answers(i) /\ msgs[i].tool_call_id = id
                        /\ \A j \in DOMAIN msgs :
                               (answers(j) /\ msgs[j].tool_call_id = id) => j <= i
    IN  [id \in ids |-> [name    |-> by_id[id],
                         content |-> ToolContentValue(msgs[last(id)])]]

\* the lookback of _find_recent_tool_calls
max_lookback == 10

\* the window of _has_recent_tool_calls
window == 4

\* _find_recent_tool_calls, looking back over the window of
\* _has_recent_tool_calls
_find_recent_tool_calls_Window(msgs) ==
    LET calls == AllToolCalls(LastN(msgs, window))
    IN  [i \in DOMAIN calls |-> calls[i].name]

\* _find_recent_tool_calls: the names of the calls of the last messages
_find_recent_tool_calls(msgs) ==
    LET calls == AllToolCalls(LastN(msgs, max_lookback))
    IN  [i \in DOMAIN calls |-> calls[i].name]

\* _has_recent_tool_calls, looking at the whole transcript
_has_recent_tool_calls_AnyAge(msgs) ==
    \E i \in DOMAIN msgs :
        (msgs[i].role = "assistant" /\ HasToolCalls(msgs[i]))
        \/ msgs[i].role = "tool"

_has_recent_tool_calls(msgs) ==
    \E i \in DOMAIN LastN(msgs, window) :
        LET m == LastN(msgs, window)[i]
        IN  (m.role = "assistant" /\ HasToolCalls(m)) \/ m.role = "tool"

---------------------------------------------------------------------------
(* _sanitize_messages *)

Placeholder == "I need to look up some information for you."

Marker == "recently used tools"

\* f"Tool '{tool_name}' returned: {json.dumps(tool_result, default=str)}"
ResultText(info) ==
    <<"Tool '", info.name, "' returned: ">> \o json_dumps(info.content)

RECURSIVE ToolResultsText(_, _)
\* tool_results_text: one text per tool call that has a response
ToolResultsText(calls, tool_responses) ==
    IF calls = <<>> THEN <<>>
    ELSE (IF Head(calls).id \in DOMAIN tool_responses
          THEN <<ResultText(tool_responses[Head(calls).id])>> ELSE <<>>)
         \o ToolResultsText(Tail(calls), tool_responses)

\* lines 266-301: the message that replaces an assistant message
SanitizeAssistant(msg, tool_responses) ==
    LET content0 == IF "content" \in msg.keys /\ ~msg.none
                    THEN msg.content ELSE <<>>
        texts == ToolResultsText(msg.tool_calls, tool_responses)
        present == \E i \in DOMAIN texts : IsSubstr(texts[i], content0)
        lead == IF content0 # <<>> /\ ~EndsWith(content0, <<"\n", "\n">>)
                THEN content0 \o <<"\n", "\n">>
                ELSE IF content0 = <<>>
                THEN <<Placeholder, "\n", "\n">>
                ELSE content0
    IN  Msg("assistant",
            IF HasToolCalls(msg) /\ texts # <<>> /\ ~present
            THEN lead \o JoinWith(<<"\n">>, texts)
            ELSE content0)

\* SanitizeOther, filling in the empty text like the assistant branch
SanitizeOther_ContentOrEmpty(msg) ==
    Msg(msg.role, IF "content" \in msg.keys /\ ~msg.none
                  THEN msg.content ELSE <<>>)

\* lines 303-308: user and system messages keep role and content only
SanitizeOther(msg) ==
    [keys |-> {"role"} \cup (msg.keys \cap {"content"}), role |-> msg.role,
     content |-> msg.content, none |-> msg.none,
     tool_calls |-> <<>>, tool_call_id |-> ""]

RECURSIVE SanitizeBody_KeepsToolMessages(_, _)
\* SanitizeBody, copying tool messages like user messages
SanitizeBody_KeepsToolMessages(msgs, tool_responses) ==
    IF msgs = <<>> THEN <<>>
    ELSE LET msg == Head(msgs)
             rest == SanitizeBody_KeepsToolMessages(Tail(msgs), tool_responses)
         IN  IF msg.role = "assistant"
             THEN <<SanitizeAssistant(msg, tool_responses)>> \o rest
             ELSE <<[msg EXCEPT !.keys = @ \ {"tool_calls"}]>> \o rest

RECURSIVE SanitizeBody_NewestFirst(_, _)
\* SanitizeBody, putting each new message in front of the list
SanitizeBody_NewestFirst(msgs, tool_responses) ==
    IF msgs = <<>> THEN <<>>
    ELSE LET msg == Head(msgs)
             rest == SanitizeBody_NewestFirst(Tail(msgs), tool_responses)
         IN  IF msg.role = "tool" THEN rest
             ELSE IF msg.role = "assistant"
             THEN rest \o <<SanitizeAssistant(msg, tool_responses)>>
             ELSE rest \o <<SanitizeOther(msg)>>

RECURSIVE SanitizeBody(_, _)
\* lines 253-308: the loop over the messages
SanitizeBody(msgs, tool_responses) ==
    IF msgs = <<>> THEN <<>>
    ELSE LET msg == Head(msgs)
             rest == SanitizeBody(Tail(msgs), tool_responses)
         IN  IF msg.role = "tool" THEN rest
             ELSE IF msg.role = "assistant"
             THEN <<SanitizeAssistant(msg, tool_responses)>> \o rest
             ELSE <<SanitizeOther(msg)>> \o rest

\* a user message whose content holds the marker phrase (line 314)
IsReminder(m) ==
    m.role = "user" /\ ~m.none /\ IsSubstr(<<Marker>>, m.content)

\* lines 318-321: the reminder, tool names in the order `names`
ReminderMsg(names) ==
    Msg("user", <<"Note: You've ", Marker, ": ">>
                \o JoinWith(<<", ">>, [i \in DOMAIN names |-> <<names[i]>>])
                \o <<". Please use the information already gathered when possible instead of calling the same tools again with the same parameters.">>)

\* the orders list(set(tool_names)) can have
NameOrders(names) ==
    LET S == {names[i] : i \in DOMAIN names}
    IN  {o \in [1..Cardinality(S) -> S] : {o[i] : i \in DOMAIN o} = S}

\* line 314 evaluates `"recently used tools" in None` for a last user
\* message whose content is None, which raises TypeError
ReminderCheckRaises(msgs, add) ==
    LET body == SanitizeBody(msgs, _find_tool_responses(msgs))
    IN  /\ add /\ _find_recent_tool_calls(msgs) # <<>>
        /\ body # <<>>
        /\ body[Len(body)].role = "user" /\ body[Len(body)].none

\* AppendsReminder, not asking whether tools were called recently
AppendsReminder_IgnoresRecentCalls(msgs, add) ==
    LET body == SanitizeBody(msgs, _find_tool_responses(msgs))
    IN  add /\ ~(body # <<>> /\ IsReminder(body[Len(body)]))

\* AppendsReminder, not looking at the last message
AppendsReminder_NoLastCheck(msgs, add) ==
    add /\ _find_recent_tool_calls(msgs) # <<>>

\* lines 310-322: is the reminder appended
AppendsReminder(msgs, add) ==
    LET body == SanitizeBody(msgs, _find_tool_responses(msgs))
    IN  /\ add /\ _find_recent_tool_calls(msgs) # <<>>
        /\ ~(body # <<>> /\ IsReminder(body[Len(body)]))

\* _sanitize_messages(messages, add_tool_reminder); `order` is the order
\* list(set(tool_names)) came out in
_sanitize_messages(msgs, add, order) ==
    LET body == SanitizeBody(msgs, _find_tool_responses(msgs))
    IN  IF ReminderCheckRaises(msgs, add)
        THEN [raised |-> TRUE, out |-> <<>>]
        ELSE [raised |-> FALSE,
              out |-> IF AppendsReminder(msgs, add)
                      THEN Append(body, ReminderMsg(order)) ELSE body]

---------------------------------------------------------------------------
(* _sanitize_messages on transcripts a caller builds *)

\* the text sanitize writes for get_task's result {"name": "t1"}
GetTaskLine == <<"Tool '", "get_task", "' returned: ", "{\"name\": \"t1\"}">>

\* the messages a transcript is built from
CoreMessages ==
    { Msg("user", <<"hi">>),
      MsgNone("user"),
      MsgBare("user"),
      ReminderMsg(<<"get_task">>),
      Msg("system", <<"sys">>),
      Msg("assistant", <<"done">>),
      MsgNone("assistant"),
      WithCalls(MsgNone("assistant"), <<ToolCall("c1", "get_task")>>),
      WithCalls(Msg("assistant", GetTaskLine),
                <<ToolCall("c1", "get_task"), ToolCall("c2", "list_goals")>>),
      ToolMsg("c1", <<"{\"name\":\"t1\"}">>),
      ToolMsg("c2", <<"Error: not found">>) }

SanInit ==
    /\ messages = <<>>
    /\ add_tool_reminder = FALSE
    /\ san_pc = "build"
    /\ sanitized_messages = <<>>

\* the caller appends a message to its transcript
AppendMessage ==
    /\ san_pc = "build"
    /\ Len(messages) < MaxCore
    /\ \E m \in CoreMessages : messages' = Append(messages, m)
    /\ UNCHANGED <<add_tool_reminder, san_pc, sanitized_messages>>

\* the conversation goes on with plain user turns
AppendPad ==
    /\ san_pc = "build"
    /\ Len(messages) >= MaxCore
    /\ Len(messages) < MaxCore + MaxPad
    /\ messages' = Append(messages, Msg("user", <<"hi">>))
    /\ UNCHANGED <<add_tool_reminder, san_pc, sanitized_messages>>

\* sanitized = _sanitize_messages(messages, add_tool_reminder=add)
CallSanitize ==
    /\ san_pc = "build"
    /\ \E add \in BOOLEAN :
       \E order \in NameOrders(_find_recent_tool_calls(messages)) :
          LET r == _sanitize_messages(messages, add, order)
          IN  /\ add_tool_reminder' = add
              /\ san_pc' = IF r.raised THEN "raised" ELSE "returned"
              /\ sanitized_messages' = r.out
    /\ UNCHANGED messages

---------------------------------------------------------------------------
(* _parse_tool_calls_from_content *)

\* single-line JSON objects a model may write
L_noargs  == "{\"name\": \"get_task\"}"
L_args    == "{\"name\": \"list_goals\", \"arguments\": {\"state\": \"active\"}}"
L_str     == "{\"name\": \"get_task\", \"arguments\": \"{\\\"id\\\": 1}\"}"
L_strbad  == "{\"name\": \"get_task\", \"arguments\": \"oops\"}"
L_strlist == "{\"name\": \"get_task\", \"arguments\": \"[1]\"}"
L_list    == "{\"name\": \"get_task\", \"arguments\": [1]}"
L_null    == "{\"name\": \"get_task\", \"arguments\": null}"
L_noname  == "{\"title\": \"x\"}"
\* starts with '{' and ends with '}', and is no JSON
L_bad     == "{not json}"
\* a JSON object with an array nested deeper than the interpreter's
\* recursion limit; "[[...]]" stands for the brackets
L_deep    == "{\"name\": \"get_task\", \"arguments\": [[...]]}"

\* what json.loads makes of a token that is a JSON object: has it a name
\* key, its name, and its arguments value (kind; json.dumps of it; for a
\* string, the string)
ObjectOf(tok) ==
    LET obj(hn, n, k, d, t) ==
            [has_name |-> hn, name |-> n, kind |-> k, dump |-> d, str |-> t]
    IN  CASE tok = L_noargs  -> obj(TRUE, "get_task", "absent", "", "")
          [] tok = L_args    -> obj(TRUE, "list_goals", "dict",
                                    "{\"state\": \"active\"}", "")
          [] tok = L_str     -> obj(TRUE, "get_task", "str",
                                    "\"{\\\"id\\\": 1}\"", "{\"id\": 1}")
          [] tok = L_strbad  -> obj(TRUE, "get_task", "str", "\"oops\"", "oops")
          [] tok = L_strlist -> obj(TRUE, "get_task", "str", "\"[1]\"", "[1]")
          [] tok = L_list    -> obj(TRUE, "get_task", "list", "[1]", "")
          [] tok = L_null    -> obj(TRUE, "get_task", "null", "null", "")
          [] tok = L_noname  -> obj(FALSE, "", "absent", "", "")

JsonObjectTokens ==
    {L_noargs, L_args, L_str, L_strbad, L_strlist, L_list, L_null, L_noname}

\* tokens whose first character is '{' / whose last character is '}'
BraceTokens == JsonObjectTokens \cup {L_bad, L_deep}

\* tokens on which json.loads raises RecursionError, which is no
\* JSONDecodeError
RecursionTokens == {L_deep}

\* strings json.loads decodes, with the kind of value they hold
StringDecodes == [t \in {"{\"id\": 1}", "[1]"} |->
                     IF t = "[1]" THEN "list" ELSE "dict"]

IsWhitespace(tok) == tok \in {" ", "\n"}

IsThinkOpen(tok) == tok \in {"<think>", "<THINK>", "<Think>"}

IsThinkClose(tok) == tok \in {"</think>", "</THINK>", "</Think>"}

RECURSIVE StripThink_SameCase(_)
\* StripThink, matching lower-case tags only
StripThink_SameCase(text) ==
    IF text = <<>> THEN <<>>
    ELSE IF Head(text) = "<think>"
            /\ \E j \in 2..Len(text) : text[j] = "</think>"
    THEN LET j == CHOOSE j \in 2..Len(text) :
                      /\ text[j] = "</think>"
                      /\ \A k \in 2..(j - 1) : text[k] # "</think>"
         IN  StripThink_SameCase(SubSeq(text, j + 1, Len(text)))
    ELSE <<Head(text)>> \o StripThink_SameCase(Tail(text))

RECURSIVE StripThink(_)
\* re.sub(r"<think>.*?</think>", "", content, flags=DOTALL | IGNORECASE):
\* each opening tag is removed together with everything up to the nearest
\* closing tag after it; an opening tag that is never closed stays
StripThink(text) ==
    IF text = <<>> THEN <<>>
    ELSE IF IsThinkOpen(Head(text))
            /\ \E j \in 2..Len(text) : IsThinkClose(text[j])
    THEN LET j == CHOOSE j \in 2..Len(text) :
                      /\ IsThinkClose(text[j])
                      /\ \A k \in 2..(j - 1) : ~IsThinkClose(text[k])
         IN  StripThink(SubSeq(text, j + 1, Len(text)))
    ELSE <<Head(text)>> \o StripThink(Tail(text))

RECURSIVE Strip(_)
\* str.strip()
Strip(text) ==
    IF text = <<>> THEN <<>>
    ELSE IF IsWhitespace(Head(text)) THEN Strip(Tail(text))
    ELSE IF IsWhitespace(text[Len(text)])
    THEN Strip(SubSeq(text, 1, Len(text) - 1))
    ELSE text

RECURSIVE SplitLines(_)
\* str.splitlines()
SplitLines(text) ==
    IF text = <<>> THEN <<>>
    ELSE IF \E i \in DOMAIN text : text[i] = "\n"
    THEN LET i == CHOOSE i \in DOMAIN text :
                      text[i] = "\n" /\ \A k \in 1..(i - 1) : text[k] # "\n"
         IN  <<SubSeq(text, 1, i - 1)>>
             \o SplitLines(SubSeq(text, i + 1, Len(text)))
    ELSE <<text>>

\* json.loads(trimmed_line): it returns an object, or raises
\* JSONDecodeError, or raises RecursionError
JsonLoads(trimmed) ==
    IF Len(trimmed) = 1 /\ trimmed[1] \in JsonObjectTokens THEN "object"
    ELSE IF Len(trimmed) = 1 /\ trimmed[1] \in RecursionTokens
    THEN "RecursionError"
    ELSE "JSONDecodeError"

\* ArgumentsOf, without the further decode of a string
ArgumentsOf_NoFurtherDecode(obj) ==
    IF obj.kind = "absent" THEN "{}" ELSE obj.dump

\* lines 100-110 and 122: the "arguments" string of the tool call
ArgumentsOf(obj) ==
    IF obj.kind = "absent" THEN "{}"
    ELSE IF obj.kind = "str"
    THEN IF obj.str \in DOMAIN StringDecodes /\ StringDecodes[obj.str] = "dict"
         THEN obj.str ELSE "{}"
    ELSE obj.dump

\* lines 125-127: except json.JSONDecodeError: ... continue
OnJSONDecodeError == "skip"

\* lines 92-127: what the loop body does with one line
LineStep(line) ==
    LET trimmed == Strip(line)
        step(k, n, a) == [kind |-> k, name |-> n, arguments |-> a]
    IN  IF trimmed = <<>> THEN step("skip", "", "")
        ELSE IF ~(trimmed[1] \in BraceTokens
                  /\ trimmed[Len(trimmed)] \in BraceTokens)
        THEN step("skip", "", "")
        ELSE IF JsonLoads(trimmed) = "JSONDecodeError"
        THEN step(OnJSONDecodeError, "", "")
        ELSE IF JsonLoads(trimmed) = "RecursionError"
        THEN step("raise", "", "")
        ELSE IF ~ObjectOf(trimmed[1]).has_name THEN step("skip", "", "")
        ELSE step("call", ObjectOf(trimmed[1]).name,
                  ArgumentsOf(ObjectOf(trimmed[1])))

\* line 113: f"call_{uuid.uuid4()}", u values drawn before this one
uuid4(u) == "call_" \o ToString(u + 1)

RECURSIVE ParseLoop_SharedId(_, _)
\* ParseLoop, with one identifier drawn for the whole text
ParseLoop_SharedId(lines, u) ==
    IF lines = <<>> THEN [raised |-> FALSE, calls |-> <<>>, uuid |-> u]
    ELSE LET s == LineStep(Head(lines))
         IN  IF s.kind = "raise"
             THEN [raised |-> TRUE, calls |-> <<>>, uuid |-> u]
             ELSE IF s.kind = "call"
             THEN LET rest == ParseLoop_SharedId(Tail(lines), u)
                  IN  [rest EXCEPT !.calls =
                          IF rest.raised THEN <<>>
                          ELSE <<[id |-> uuid4(u), name |-> s.name,
                                  arguments |-> s.arguments]>> \o @]
             ELSE ParseLoop_SharedId(Tail(lines), u)

RECURSIVE ParseLoop(_, _)
\* lines 91-127: the loop over the lines; an exception that no handler
\* catches ends the call
ParseLoop(lines, u) ==
    IF lines = <<>> THEN [raised |-> FALSE, calls |-> <<>>, uuid |-> u]
    ELSE LET s == LineStep(Head(lines))
         IN  IF s.kind = "raise"
             THEN [raised |-> TRUE, calls |-> <<>>, uuid |-> u]
             ELSE IF s.kind = "call"
             THEN LET rest == ParseLoop(Tail(lines), u + 1)
                  IN  [rest EXCEPT !.calls =
                          IF rest.raised THEN <<>>
                          ELSE <<[id |-> uuid4(u), name |-> s.name,
                                  arguments |-> s.arguments]>> \o @]
             ELSE ParseLoop(Tail(lines), u)

\* a text, or None
Text(t) == [none |-> FALSE, text |-> t]

NoneText == [none |-> TRUE, text |-> <<>>]

\* _parse_tool_calls_from_content(content), u uuid4 values drawn before
_parse_tool_calls_from_content(c, u) ==
    IF c.none \/ c.text = <<>>
    THEN [raised |-> FALSE, calls |-> <<>>, uuid |-> u]
    ELSE ParseLoop(SplitLines(Strip(StripThink(c.text))), u)

---------------------------------------------------------------------------
(* _parse_tool_calls_from_content on texts a model writes *)

\* lines of a text within the bounds
MaxLines == 4

\* the lines a text is built from
ParseLines ==
    { <<L_noargs>>,
      <<L_args>>,
      <<L_str>>,
      <<L_strbad>>,
      <<L_bad>>,
      <<L_deep>>,
      <<L_list>>,
      <<L_null>>,
      <<L_noname>>,
      <<"Sure">>,
      <<"<think>", "ok", "</think>">>,
      <<"<think>", "ok">>,
      <<"</think>">>,
      <<"</Think>">>,
      <<" ", L_noargs, " ">>,
      <<"<THINK>", L_noargs, "</Think>">> }

\* number of lines written so far
LinesWritten(text) ==
    Cardinality({i \in DOMAIN text : text[i] = "\n"}) + 1

ParseInit ==
    /\ content = NoneText
    /\ parse_pc = "none"
    /\ tool_calls = <<>>

\* the model writes the first line, or nothing at all
WriteFirst ==
    /\ parse_pc = "none"
    /\ \E line \in ParseLines \cup {<<>>} : content' = Text(line)
    /\ parse_pc' = "text"
    /\ UNCHANGED <<tool_calls, uuid_state>>

\* the model writes one more line
WriteLine ==
    /\ parse_pc = "text"
    /\ content.text # <<>>
    /\ LinesWritten(content.text) < MaxLines
    /\ \E line \in ParseLines :
          content' = Text(content.text \o <<"\n">> \o line)
    /\ UNCHANGED <<parse_pc, tool_calls, uuid_state>>

\* tool_calls = _parse_tool_calls_from_content(content)
CallParse ==
    /\ parse_pc \in {"none", "text"}
    /\ LET r == _parse_tool_calls_from_content(content, uuid_state)
       IN  /\ parse_pc' = IF r.raised THEN "raised" ELSE "returned"
           /\ tool_calls' = r.calls
           /\ uuid_state' = r.uuid
    /\ UNCHANGED content

---------------------------------------------------------------------------
(* _format_tools_for_prompt, _generate_tool_prompt *)

\* a tool descriptor: {"type": "function", "function": {...}}
ToolDescriptor(name, description, properties, required) ==
    [name |-> name, description |-> description,
     properties |-> properties, required |-> required]

RECURSIVE FormatTools(_)
\* lines 21-38: one entry per tool
FormatTools(tools) ==
    IF tools = <<>> THEN <<>>
    ELSE LET t == Head(tools)
             param_list == [i \in DOMAIN t.properties |->
                               <<t.properties[i].name, " (",
                                 t.properties[i].type, ")">>]
             param_desc ==
                 IF t.properties = <<>> THEN <<"Parameters: None">>
                 ELSE <<"Parameters: ">> \o JoinWith(<<", ">>, param_list)
                      \o (IF t.required = <<>> THEN <<>>
                          ELSE <<" (Required: ">>
                               \o JoinWith(<<", ">>,
                                      [i \in DOMAIN t.required |-> <<t.required[i]>>])
                               \o <<")">>)
         IN  <<<<"- Function: ", t.name, "\n", "  Description: ",
                 t.description, "\n", "  ">> \o param_desc>>
             \o FormatTools(Tail(tools))

\* _format_tools_for_prompt
_format_tools_for_prompt(tools) ==
    IF tools = <<>> THEN <<"No tools available.">>
    ELSE <<"Available Tools:", "\n">> \o JoinWith(<<"\n">>, FormatTools(tools))

\* lines 57-66 of the template
ToolInstructions == "If you need to use a tool to answer the user's request, follow these instructions *exactly*: ..."

\* lines 72-75: the addendum after recent tool usage
RecentUsageNote == "IMPORTANT: I notice you've already used tools recently in this conversation. ..."

\* _generate_tool_prompt(tools, recent_tool_usage)
_generate_tool_prompt(tools, recent_tool_usage) ==
    Strip(<<"\n", "You have access to the following tools:", "\n">>
          \o _format_tools_for_prompt(tools)
          \o <<"\n", "\n", ToolInstructions, "\n">>
          \o (IF recent_tool_usage THEN <<"\n", RecentUsageNote, "\n">>
              ELSE <<>>))

---------------------------------------------------------------------------
(* completion() *)

\* litellm's capability table: the models it knows, and whether each
\* supports function calling
ModelTable ==
    [m \in {"gpt-4o", "deepinfra/google/gemma-3-27b-it"} |-> m = "gpt-4o"]

\* litellm.supports_function_calling(model): a model the table does not
\* know does not support it
supports_function_calling(model) ==
    model \in DOMAIN ModelTable /\ ModelTable[model]

\* keyword arguments: `keys` are the keywords given
Kwargs(keys, model, msgs, tools, tool_choice) ==
    [keys |-> keys, model |-> model, messages |-> msgs, tools |-> tools,
     tool_choice |-> tool_choice]

NoKwargs == Kwargs({}, "", <<>>, <<>>, "")

\* a ModelResponse; choices is empty or holds one choice
Response(id, model, choices) ==
    [id |-> id, model |-> model, created |-> "1700000000",
     usage |-> "usage-7", choices |-> choices]

Choice(finish_reason, text, calls) ==
    [finish_reason |-> finish_reason, index |-> 0,
     message |-> [role |-> "assistant", content |-> text,
                  tool_calls |-> calls]]

NoResponse == Response("", "", <<>>)

NoResult == [status |-> "none", response |-> NoResponse, error |-> ""]

\* completion() raised the exception e
RaisedResult(e) == [status |-> "raised", response |-> NoResponse, error |-> e]

\* completion() returned resp
ReturnedResult(resp) == [status |-> "returned", response |-> resp, error |-> ""]

\* the exceptions litellm.completion may raise
ProviderErrors == {"RateLimitError", "AuthenticationError"}

\* lines 390-392, one exception for any failure of the provider
Reraise_Wrapped(e) == "RuntimeError"

\* lines 390-392: except Exception as e: ...; raise
Reraise(e) == e

\* Mode, taking a tools argument that was given for a catalog, empty or not
Mode_ToolsKeyGiven(kw) ==
    IF kw.model = "" \/ kw.messages = <<>> THEN "passthrough"
    ELSE IF supports_function_calling(kw.model) /\ "tools" \in kw.keys
    THEN "native"
    ELSE IF "tools" \in kw.keys THEN "emulated"
    ELSE "passthrough"

\* line 250: sanitized_messages = [] is a list of its own
SanitizedIsNewList_InPlace == FALSE

\* line 250: sanitized_messages = [] is a list of its own, not the list the
\* caller passed
SanitizedIsNewList == TRUE

\* line 376: modified_messages = sanitized_messages.copy() is a list of its
\* own
ModifiedIsCopy == TRUE

\* the caller's list after _sanitize_messages built `out`: writes to
\* sanitized_messages reach it only if that is the same list
CallerAfterSanitize(msgs, out) ==
    IF SanitizedIsNewList THEN msgs ELSE out

\* the caller's list after line 377 appended m to modified_messages
CallerAfterAppend(msgs, m) ==
    IF SanitizedIsNewList \/ ModifiedIsCopy THEN msgs ELSE Append(msgs, m)

\* lines 342-358 and 450: which branch completion() takes
Mode(kw) ==
    IF kw.model = "" \/ kw.messages = <<>> THEN "passthrough"
    ELSE IF supports_function_calling(kw.model) /\ kw.tools # <<>>
    THEN "native"
    ELSE IF kw.tools # <<>> THEN "emulated"
    ELSE "passthrough"

\* EmulatedKwargs, leaving tool_choice in place
EmulatedKwargs_KeepsToolChoice(kw, msgs) ==
    [kw EXCEPT !.keys = @ \ {"tools"}, !.messages = msgs, !.tools = <<>>]

\* lines 363, 376-385: call_kwargs, with the new transcript and without
\* the tool parameters
EmulatedKwargs(kw, msgs) ==
    [kw EXCEPT !.keys = @ \ {"tools", "tool_choice"},
               !.messages = msgs, !.tools = <<>>, !.tool_choice = ""]

\* the tool prompt merged into the system turn
InjectPrompt_IntoSystem(msgs, tool_prompt) ==
    IF msgs # <<>> /\ msgs[1].role = "system" /\ ~msgs[1].none
    THEN [msgs EXCEPT ![1].content = @ \o <<"\n">> \o tool_prompt]
    ELSE <<Msg("system", tool_prompt)>> \o msgs

\* lines 376-377: the tool prompt is appended to a copy of the sanitized
\* transcript as a user message
InjectPrompt(msgs, tool_prompt) == Append(msgs, Msg("user", tool_prompt))

\* lines 395-397: response_content
ResponseContent(resp) ==
    IF resp.choices # <<>> THEN resp.choices[1].message.content ELSE NoneText

\* ToolCallResponse, leaving the message's text in place
ToolCallResponse_KeepsContent(resp, calls) ==
    [resp EXCEPT !.choices =
        <<[finish_reason |-> "tool_calls", index |-> resp.choices[1].index,
           message |-> [resp.choices[1].message EXCEPT !.tool_calls = calls]]>>]

\* lines 406-443: the response built around the parsed tool calls
ToolCallResponse(resp, calls) ==
    LET index == IF resp.choices # <<>> THEN resp.choices[1].index ELSE 0
        role  == IF resp.choices # <<>> THEN resp.choices[1].message.role
                 ELSE "assistant"
    IN  [resp EXCEPT !.choices =
            <<[finish_reason |-> "tool_calls", index |-> index,
               message |-> [role |-> role, content |-> NoneText,
                            tool_calls |-> calls]]>>]

\* PlainResponse, returning the raw response as it came
PlainResponse_Raw(resp) == resp

\* lines 444-448: the response returned when no tool call was parsed
PlainResponse(resp) ==
    IF resp.choices # <<>> /\ resp.choices[1].finish_reason = "tool_calls"
    THEN [resp EXCEPT !.choices[1].finish_reason = "stop"]
    ELSE resp

---------------------------------------------------------------------------
(* completion() called by an application *)

\* invocations of one conversation
MaxInvocations == 2
\* messages of a transcript handed to completion()
MaxGwLen == 2

\* the messages those transcripts are built from
GwMessages ==
    { Msg("user", <<"hi">>),
      MsgNone("user"),
      Msg("system", <<"sys">>),
      WithCalls(MsgNone("assistant"), <<ToolCall("c1", "get_task")>>),
      ToolMsg("c1", <<"{\"name\":\"t1\"}">>) }

\* a conversation that used a tool once and went on with plain user
\* turns: n of them after the tool message
AgedTranscript(n) ==
    <<WithCalls(MsgNone("assistant"), <<ToolCall("c1", "get_task")>>),
      ToolMsg("c1", <<"{\"name\":\"t1\"}">>)>>
    \o [i \in 1..n |-> Msg("user", <<"hi">>)]

\* such conversations, with the tool message just inside and just outside
\* the window of _has_recent_tool_calls
LongTranscripts == {AgedTranscript(window - 1), AgedTranscript(window)}

GwTranscripts ==
    UNION {[1..n -> GwMessages] : n \in 0..MaxGwLen} \cup LongTranscripts

\* the catalog the application offers
Catalog ==
    <<ToolDescriptor("get_task", "Get a task",
                     <<[name |-> "id", type |-> "integer"]>>, <<"id">>),
      ToolDescriptor("list_goals", "List goals",
                     <<[name |-> "state", type |-> "string"]>>, <<>>)>>

\* the model identifiers an application may name; "" stands for none
ModelIds == {"gpt-4o", "deepinfra/google/gemma-3-27b-it", "my-local-model", ""}

\* the tool parameters an application may pass: none, an empty catalog,
\* the catalog with a tool-choice policy, the catalog alone
ToolSettings ==
    { [keys |-> {}, tools |-> <<>>, tool_choice |-> ""],
      [keys |-> {"tools", "tool_choice"}, tools |-> <<>>, tool_choice |-> "auto"],
      [keys |-> {"tools", "tool_choice"}, tools |-> Catalog, tool_choice |-> "auto"],
      [keys |-> {"tools"}, tools |-> Catalog, tool_choice |-> ""] }

\* the arguments an application may pass
GwKwargs ==
    { Kwargs({"model", "messages"} \cup ts.keys, m, t, ts.tools, ts.tool_choice) :
        m \in ModelIds, t \in GwTranscripts, ts \in ToolSettings }

\* the texts the provider's model may answer with
ProviderContents ==
    { NoneText,
      Text(<<"Sure", " ", "thing">>),
      Text(<<"<think>", "ok", "</think>", "\n", L_args, "\n">>),
      Text(<<L_noargs, "\n", L_noargs>>),
      Text(<<L_bad, "\n", L_noargs>>),
      Text(<<L_deep, "\n", L_noargs>>) }

\* the responses litellm.completion may return to a request
ProviderResponses(kw) ==
    { Response("resp-1", kw.model, <<Choice(f, c, <<>>)>>) :
        f \in {"stop", "tool_calls"}, c \in ProviderContents }
    \cup { Response("resp-1", kw.model, <<>>) }
    \cup { Response("resp-1", kw.model,
                    <<Choice("length", Text(<<"Sure", " ", "thing">>), <<>>)>>) }
    \cup { Response("resp-1", kw.model,
                    <<Choice(f, c, <<ToolCall("native_1", "get_task")>>)>>) :
             f \in {"stop", "tool_calls"},
             c \in {NoneText, Text(<<L_noargs, "\n", L_noargs>>)} }

\* lines 342-358: the application calls completion(**kw)
Invoke ==
    /\ pc = "idle"
    /\ invocations < MaxInvocations
    /\ \E kw \in GwKwargs :
          /\ kwargs' = kw
          /\ caller_messages' = kw.messages
          /\ pc' = IF Mode(kw) = "emulated" THEN "sanitize" ELSE "forward"
    /\ provider_calls' = <<>>
    /\ response' = NoResponse
    /\ provider_error' = ""
    /\ result' = NoResult
    /\ has_recent_tools' = FALSE
    /\ modified_messages' = <<>>
    /\ call_kwargs' = NoKwargs
    /\ parsed_tool_calls' = <<>>
    /\ UNCHANGED <<uuid_state, issued, invocations>>

\* lines 348, 356, 452: return litellm.completion(*args, **kwargs)
ForwardReturns ==
    /\ pc = "forward"
    /\ provider_calls' = Append(provider_calls, kwargs)
    /\ \E resp \in ProviderResponses(kwargs) :
          /\ response' = resp
          /\ result' = ReturnedResult(resp)
    /\ pc' = "done"
    /\ UNCHANGED <<caller_messages, provider_error, kwargs, has_recent_tools, modified_messages, call_kwargs,
                   parsed_tool_calls, uuid_state, issued, invocations>>

\* the same call, and litellm.completion raises
ForwardRaises ==
    /\ pc = "forward"
    /\ provider_calls' = Append(provider_calls, kwargs)
    /\ \E e \in ProviderErrors :
          /\ provider_error' = e
          /\ result' = RaisedResult(e)
    /\ pc' = "failed"
    /\ UNCHANGED <<caller_messages, kwargs, response, has_recent_tools, modified_messages,
                   call_kwargs, parsed_tool_calls, uuid_state, issued,
                   invocations>>

\* lines 363-370: has_recent_tools and the sanitized transcript
Sanitize ==
    /\ pc = "sanitize"
    /\ has_recent_tools' = _has_recent_tool_calls(kwargs.messages)
    /\ \E order \in NameOrders(_find_recent_tool_calls(kwargs.messages)) :
          LET r == _sanitize_messages(kwargs.messages,
                                      _has_recent_tool_calls(kwargs.messages),
                                      order)
          IN  /\ modified_messages' = r.out
              /\ caller_messages' =
                    IF r.raised THEN caller_messages
                    ELSE CallerAfterSanitize(caller_messages, r.out)
              /\ pc' = IF r.raised THEN "failed" ELSE "inject"
              /\ result' = IF r.raised
                           THEN RaisedResult("TypeError")
                           ELSE result
    /\ UNCHANGED <<provider_error, kwargs, provider_calls, response, call_kwargs,
                   parsed_tool_calls, uuid_state, issued, invocations>>

\* lines 372-385: the tool prompt becomes the final user message
Inject ==
    /\ pc = "inject"
    /\ LET tool_prompt == _generate_tool_prompt(kwargs.tools, has_recent_tools)
           modified == InjectPrompt(modified_messages, tool_prompt)
       IN  /\ modified_messages' = modified
           /\ caller_messages' =
                 CallerAfterAppend(caller_messages, Msg("user", tool_prompt))
           /\ call_kwargs' = EmulatedKwargs(kwargs, modified)
    /\ pc' = "call_provider"
    /\ UNCHANGED <<provider_error, kwargs, provider_calls, response, result, has_recent_tools,
                   parsed_tool_calls, uuid_state, issued, invocations>>

\* lines 388-389: response = litellm.completion(*args, **call_kwargs)
ProviderReturns ==
    /\ pc = "call_provider"
    /\ provider_calls' = Append(provider_calls, call_kwargs)
    /\ \E resp \in ProviderResponses(call_kwargs) : response' = resp
    /\ pc' = "parse"
    /\ UNCHANGED <<caller_messages, provider_error, kwargs, result, has_recent_tools, modified_messages,
                   call_kwargs, parsed_tool_calls, uuid_state, issued,
                   invocations>>

\* lines 390-392: the call raises, and completion() raises the same
ProviderRaises ==
    /\ pc = "call_provider"
    /\ provider_calls' = Append(provider_calls, call_kwargs)
    /\ \E e \in ProviderErrors :
          /\ provider_error' = e
          /\ result' = RaisedResult(Reraise(e))
    /\ pc' = "failed"
    /\ UNCHANGED <<caller_messages, kwargs, response, has_recent_tools, modified_messages,
                   call_kwargs, parsed_tool_calls, uuid_state, issued,
                   invocations>>

\* lines 394-403: the tool calls parsed from the response's text
Parse ==
    /\ pc = "parse"
    /\ LET r == _parse_tool_calls_from_content(ResponseContent(response),
                                               uuid_state)
       IN  /\ parsed_tool_calls' = r.calls
           /\ uuid_state' = r.uuid
           /\ pc' = IF r.raised THEN "failed" ELSE "assemble"
           /\ result' = IF r.raised
                        THEN RaisedResult("RecursionError")
                        ELSE result
    /\ UNCHANGED <<caller_messages, provider_error, kwargs, provider_calls, response, has_recent_tools,
                   modified_messages, call_kwargs, issued, invocations>>

\* lines 405-448: the response handed back
Assemble ==
    /\ pc = "assemble"
    /\ result' = ReturnedResult(
                     IF parsed_tool_calls # <<>>
                     THEN ToolCallResponse(response, parsed_tool_calls)
                     ELSE PlainResponse(response))
    /\ pc' = "done"
    /\ UNCHANGED <<caller_messages, provider_error, kwargs, provider_calls, response, has_recent_tools,
                   modified_messages, call_kwargs, parsed_tool_calls,
                   uuid_state, issued, invocations>>

\* the application has the outcome; it may call again
Return ==
    /\ pc \in {"done", "failed"}
    /\ issued' = issued \cup
          {parsed_tool_calls[i].id : i \in DOMAIN parsed_tool_calls}
    /\ invocations' = invocations + 1
    /\ pc' = "idle"
    /\ caller_messages' = <<>>
    /\ kwargs' = NoKwargs
    /\ provider_calls' = <<>>
    /\ response' = NoResponse
    /\ provider_error' = ""
    /\ result' = NoResult
    /\ has_recent_tools' = FALSE
    /\ modified_messages' = <<>>
    /\ call_kwargs' = NoKwargs
    /\ parsed_tool_calls' = <<>>
    /\ UNCHANGED uuid_state

---------------------------------------------------------------------------
(* completion() called from two threads at once *)

\* the threads of the application
Threads == {"t1", "t2"}

\* the locals of a call of completion() that has not started
IdleFrame ==
    [pc |-> "idle", kwargs |-> NoKwargs, provider_calls |-> <<>>,
     response |-> NoResponse, result |-> NoResult,
     has_recent_tools |-> FALSE, modified_messages |-> <<>>,
     call_kwargs |-> NoKwargs, parsed_tool_calls |-> <<>>]

\* every call reads the module's one set of names
Local_ModuleLevel(fs, t) == fs["t1"]

\* lines 342-344, 363-402: model, messages, tools, call_kwargs, ... are
\* locals of the call: each call reads its own
Local(fs, t) == fs[t]

\* the transcript each thread has
ConcTranscripts(t) ==
    IF t = "t1"
    THEN { <<Msg("user", <<"hi">>)>>,
           <<WithCalls(MsgNone("assistant"), <<ToolCall("c1", "get_task")>>),
             ToolMsg("c1", <<"{\"name\":\"t1\"}">>)>> }
    ELSE { <<Msg("system", <<"sys">>), Msg("user", <<"hi">>)>>,
           <<Msg("system", <<"sys">>),
             WithCalls(MsgNone("assistant"), <<ToolCall("c2", "list_goals")>>)>> }

\* the arguments each thread may pass
ConcKwargs(t) ==
    { Kwargs({"model", "messages", "tools"}, m, tr, Catalog, "") :
        m \in {"gpt-4o", "my-local-model"}, tr \in ConcTranscripts(t) }

\* the responses the provider may give a thread
ConcResponses(kw) ==
    { Response("resp-1", kw.model, <<Choice("stop", c, <<>>)>>) :
        c \in { Text(<<"Sure", " ", "thing">>),
                Text(<<L_noargs, "\n", L_args>>) } }

\* lines 342-358: thread t calls completion(**kw)
ConcInvoke(t) ==
    /\ Local(frames, t).pc = "idle"
    /\ \E kw \in ConcKwargs(t) :
          frames' = [frames EXCEPT ![t] =
              [IdleFrame EXCEPT
                  !.kwargs = kw,
                  !.pc = IF Mode(kw) = "emulated" THEN "sanitize"
                         ELSE "forward"]]
    /\ UNCHANGED uuid_state

\* lines 348, 356, 452: litellm.completion(*args, **kwargs) returns or raises
ConcForward(t) ==
    LET f == Local(frames, t)
    IN  /\ f.pc = "forward"
        /\ \/ \E resp \in ConcResponses(f.kwargs) :
                 frames' = [frames EXCEPT ![t] =
                     [f EXCEPT !.provider_calls = <<f.kwargs>>,
                               !.response = resp,
                               !.result = ReturnedResult(resp),
                               !.pc = "done"]]
           \/ \E e \in ProviderErrors :
                 frames' = [frames EXCEPT ![t] =
                     [f EXCEPT !.provider_calls = <<f.kwargs>>,
                               !.result = RaisedResult(e),
                               !.pc = "failed"]]
        /\ UNCHANGED uuid_state

\* lines 363-370
ConcSanitize(t) ==
    LET f == Local(frames, t)
        recent == _has_recent_tool_calls(f.kwargs.messages)
    IN  /\ f.pc = "sanitize"
        /\ \E order \in NameOrders(_find_recent_tool_calls(f.kwargs.messages)) :
              LET r == _sanitize_messages(f.kwargs.messages, recent, order)
              IN  frames' = [frames EXCEPT ![t] =
                      [f EXCEPT !.has_recent_tools = recent,
                                !.modified_messages = r.out,
                                !.result = IF r.raised
                                           THEN RaisedResult("TypeError")
                                           ELSE @,
                                !.pc = IF r.raised THEN "failed"
                                       ELSE "inject"]]
        /\ UNCHANGED uuid_state

\* lines 372-385
ConcInject(t) ==
    LET f == Local(frames, t)
        tool_prompt == _generate_tool_prompt(f.kwargs.tools, f.has_recent_tools)
        modified == InjectPrompt(f.modified_messages, tool_prompt)
    IN  /\ f.pc = "inject"
        /\ frames' = [frames EXCEPT ![t] =
               [f EXCEPT !.modified_messages = modified,
                         !.call_kwargs = EmulatedKwargs(f.kwargs, modified),
                         !.pc = "call_provider"]]
        /\ UNCHANGED uuid_state

\* lines 388-392: litellm.completion(*args, **call_kwargs) returns or raises
ConcProvider(t) ==
    LET f == Local(frames, t)
    IN  /\ f.pc = "call_provider"
        /\ \/ \E resp \in ConcResponses(f.call_kwargs) :
                 frames' = [frames EXCEPT ![t] =
                     [f EXCEPT !.provider_calls = <<f.call_kwargs>>,
                               !.response = resp,
                               !.pc = "parse"]]
           \/ \E e \in ProviderErrors :
                 frames' = [frames EXCEPT ![t] =
                     [f EXCEPT !.provider_calls = <<f.call_kwargs>>,
                               !.result = RaisedResult(Reraise(e)),
                               !.pc = "failed"]]
        /\ UNCHANGED uuid_state

\* lines 394-403; uuid.uuid4 is the one thing the calls share
ConcParse(t) ==
    LET f == Local(frames, t)
        r == _parse_tool_calls_from_content(ResponseContent(f.response),
                                            uuid_state)
    IN  /\ f.pc = "parse"
        /\ uuid_state' = r.uuid
        /\ frames' = [frames EXCEPT ![t] =
               [f EXCEPT !.parsed_tool_calls = r.calls,
                         !.result = IF r.raised
                                    THEN RaisedResult("RecursionError")
                                    ELSE @,
                         !.pc = IF r.raised THEN "failed" ELSE "assemble"]]

\* lines 405-448
ConcAssemble(t) ==
    LET f == Local(frames, t)
    IN  /\ f.pc = "assemble"
        /\ frames' = [frames EXCEPT ![t] =
               [f EXCEPT !.result = ReturnedResult(
                             IF f.parsed_tool_calls # <<>>
                             THEN ToolCallResponse(f.response,
                                                   f.parsed_tool_calls)
                             ELSE PlainResponse(f.response)),
                         !.pc = "done"]]
        /\ UNCHANGED uuid_state

---------------------------------------------------------------------------
(* chat_loop() of src/cli.py: the host of the gateway *)

\* calls of completion() in one session
MaxHostCalls == 6
\* lines the user enters in one session
MaxInputs == 2

\* cli.py line 222
max_consecutive_tool_calls == 5

\* cli.py line 40: the model the host is configured with
HostModel == "deepinfra/google/gemma-3-27b-it"

\* cli.py lines 192-197: the history starts with the system prompt
SystemPrompt == Msg("system", <<"sys">>)

\* cli.py lines 48-64: the arguments send_message passes to completion()
HostKwargs(hist) ==
    Kwargs({"model", "messages", "tools", "tool_choice"}, HostModel, hist,
           Catalog, "auto")

\* the texts the host's model answers with: a plain answer, one call, two
\* calls, a line on which the parser raises
HostContents ==
    { Text(<<"Sure", " ", "thing">>),
      Text(<<L_noargs>>),
      Text(<<L_noargs, "\n", L_args>>),
      Text(<<L_deep>>) }

HostResponses(kw) ==
    { Response("resp-1", kw.model, <<Choice("stop", c, <<>>)>>) :
        c \in HostContents }

\* poly_completion.py lines 366-378: the transcript completion() forwards
\* on the emulated path
ForwardedBy(kw, order) ==
    LET recent == _has_recent_tool_calls(kw.messages)
        san == _sanitize_messages(kw.messages, recent, order)
    IN  [raised |-> san.raised,
         messages |-> IF san.raised THEN <<>>
                      ELSE InjectPrompt(san.out,
                                        _generate_tool_prompt(kw.tools, recent))]

\* poly_completion.py lines 395-448: what completion() makes of the
\* provider's response, u identifiers drawn before
EmulatedResult(resp, u) ==
    LET r == _parse_tool_calls_from_content(ResponseContent(resp), u)
    IN  [uuid |-> r.uuid,
         result |-> IF r.raised THEN RaisedResult("RecursionError")
                    ELSE ReturnedResult(IF r.calls # <<>>
                                        THEN ToolCallResponse(resp, r.calls)
                                        ELSE PlainResponse(resp))]

\* cli.py lines 249-258: execute_tool_call, and the text kept for it
ToolOutcome(name) ==
    IF name = "get_task" THEN GetTaskOutcome ELSE ListGoalsOutcome

\* {"role": "assistant", "content": content}
AssistantMsg(c) ==
    IF c.none THEN MsgNone("assistant") ELSE Msg("assistant", c.text)

\* cli.py lines 268-287: a tool_results_message
ToolResultsMessage(call) == ToolMsg(call.id, <<ToolOutcome(call.name)>>)

\* cli.py lines 261-291: the history after a response with tool calls. The
\* message for the first call is built and, when there are more calls,
\* overwritten before it is appended; the loop appends the messages of the
\* second to the last call, and line 291 appends the last one built
HistoryAfterTools(hist, c, calls) ==
    LET n == Len(calls)
        h1 == Append(hist, WithCalls(AssistantMsg(c), calls))
        later == [i \in 1..(n - 1) |-> ToolResultsMessage(calls[i + 1])]
    IN  IF n > 1
        THEN Append(h1 \o later, ToolResultsMessage(calls[n]))
        ELSE Append(h1, ToolResultsMessage(calls[1]))

\* LoopContinues, letting the counter reach the ceiling first
LoopContinues_OneMore(c) == c <= max_consecutive_tool_calls

\* cli.py line 225: while consecutive_tool_calls < max_consecutive_tool_calls
LoopContinues(c) == c < max_consecutive_tool_calls

HostInit ==
    /\ history = <<SystemPrompt>>
    /\ host_pc = "prompt"
    /\ consecutive_tool_calls = 0
    /\ host_invocations = 0
    /\ host_calls = 0
    /\ host_inputs = 0
    /\ forwarded = <<>>
    /\ round_at = 0
    /\ seen_round = 0

\* cli.py lines 201, 216, 221: the user enters a line
HostUserInput ==
    /\ host_pc = "prompt"
    /\ host_calls < MaxHostCalls
    /\ host_inputs < MaxInputs
    /\ host_inputs' = host_inputs + 1
    /\ history' = Append(history, Msg("user", <<"hi">>))
    /\ consecutive_tool_calls' = 0
    /\ host_invocations' = 0
    /\ host_pc' = IF LoopContinues(0) THEN "loop" ELSE "prompt"
    /\ UNCHANGED <<host_calls, forwarded, round_at, seen_round, uuid_state>>

\* cli.py lines 206-212: the user enters "reset"
HostReset ==
    /\ host_pc = "prompt"
    /\ Len(history) > 1
    /\ history' = <<SystemPrompt>>
    /\ round_at' = 0
    /\ seen_round' = 0
    /\ UNCHANGED <<host_pc, consecutive_tool_calls, host_invocations,
                   host_calls, host_inputs, forwarded, uuid_state>>

\* cli.py lines 225-291: completion() returns a response with tool calls;
\* the host runs them and extends the history
HostToolRound ==
    /\ host_pc = "loop"
    /\ host_calls < MaxHostCalls
    /\ host_calls' = host_calls + 1
    /\ UNCHANGED host_inputs
    /\ LET kw == HostKwargs(history)
       IN  /\ \E order \in NameOrders(_find_recent_tool_calls(history)) :
                 LET fwd == ForwardedBy(kw, order)
                 IN  ~fwd.raised /\ forwarded' = fwd.messages
           /\ \E resp \in HostResponses(kw) :
              LET out == EmulatedResult(resp, uuid_state)
                  message == out.result.response.choices[1].message
              IN  /\ out.result.status = "returned"
                  /\ message.tool_calls # <<>>
                  /\ uuid_state' = out.uuid
                  /\ history' = HistoryAfterTools(history, message.content,
                                                  message.tool_calls)
    /\ consecutive_tool_calls' = consecutive_tool_calls + 1
    /\ host_invocations' = host_invocations + 1
    /\ host_pc' = IF LoopContinues(consecutive_tool_calls + 1)
                  THEN "loop" ELSE "prompt"
    /\ seen_round' = round_at
    /\ round_at' = Len(history) + 1

\* cli.py lines 225-236, 295-299: completion() returns a response without
\* tool calls; the host appends it and leaves the loop
HostAnswer ==
    /\ host_pc = "loop"
    /\ host_calls < MaxHostCalls
    /\ host_calls' = host_calls + 1
    /\ UNCHANGED host_inputs
    /\ LET kw == HostKwargs(history)
       IN  /\ \E order \in NameOrders(_find_recent_tool_calls(history)) :
                 LET fwd == ForwardedBy(kw, order)
                 IN  ~fwd.raised /\ forwarded' = fwd.messages
           /\ \E resp \in HostResponses(kw) :
              LET out == EmulatedResult(resp, uuid_state)
                  message == out.result.response.choices[1].message
              IN  /\ out.result.status = "returned"
                  /\ message.tool_calls = <<>>
                  /\ uuid_state' = out.uuid
                  /\ history' = Append(history, AssistantMsg(message.content))
    /\ host_invocations' = host_invocations + 1
    /\ host_pc' = "prompt"
    /\ seen_round' = round_at
    /\ round_at' = 0
    /\ UNCHANGED consecutive_tool_calls

\* cli.py lines 306-310: completion() raises (the provider's error, or an
\* error of the parser after the provider answered); the host reports it
\* and returns to the prompt
HostFailure ==
    /\ host_pc = "loop"
    /\ host_calls < MaxHostCalls
    /\ host_calls' = host_calls + 1
    /\ UNCHANGED host_inputs
    /\ LET kw == HostKwargs(history)
       IN  \E order \in NameOrders(_find_recent_tool_calls(history)) :
              LET fwd == ForwardedBy(kw, order)
              IN  /\ \/ fwd.raised
                     \/ \E e \in ProviderErrors : TRUE
                     \/ \E resp \in HostResponses(kw) :
                           EmulatedResult(resp, uuid_state).result.status
                               = "raised"
                  /\ forwarded' = fwd.messages
                  /\ seen_round' = IF fwd.raised THEN 0 ELSE round_at
                  /\ round_at' = IF fwd.raised THEN round_at ELSE 0
    /\ host_invocations' = host_invocations + 1
    /\ host_pc' = "prompt"
    /\ UNCHANGED <<history, consecutive_tool_calls, uuid_state>>

---------------------------------------------------------------------------
(* Specifications *)

HostIdle ==
    /\ history = <<>>
    /\ host_pc = "off"
    /\ consecutive_tool_calls = 0
    /\ host_invocations = 0
    /\ host_calls = 0
    /\ host_inputs = 0
    /\ forwarded = <<>>
    /\ round_at = 0
    /\ seen_round = 0

ConcIdle == frames = [t \in Threads |-> IdleFrame]

ParseIdle ==
    /\ content = NoneText
    /\ parse_pc = "idle"
    /\ tool_calls = <<>>

GwIdle ==
    /\ pc = "idle"
    /\ kwargs = NoKwargs
    /\ caller_messages = <<>>
    /\ provider_calls = <<>>
    /\ response = NoResponse
    /\ provider_error = ""
    /\ result = NoResult
    /\ has_recent_tools = FALSE
    /\ modified_messages = <<>>
    /\ call_kwargs = NoKwargs
    /\ parsed_tool_calls = <<>>
    /\ uuid_state = 0
    /\ issued = {}
    /\ invocations = 0

SanNext ==
    \/ AppendMessage /\ UNCHANGED <<parse_vars, gw_vars, conc_vars, host_vars>>
    \/ AppendPad /\ UNCHANGED <<parse_vars, gw_vars, conc_vars, host_vars>>
    \/ CallSanitize /\ UNCHANGED <<parse_vars, gw_vars, conc_vars, host_vars>>

\* a caller starts a transcript; nothing else is running
SanStart == SanInit /\ ParseIdle /\ GwIdle /\ ConcIdle /\ HostIdle

\* _sanitize_messages on every transcript within the bounds
SanSpec == SanStart /\ [][SanNext]_vars

SanIdle ==
    /\ messages = <<>>
    /\ add_tool_reminder = FALSE
    /\ san_pc = "idle"
    /\ sanitized_messages = <<>>

ParseNext ==
    \/ WriteFirst /\ UNCHANGED <<san_vars, gw_locals, conc_vars, host_vars>>
    \/ WriteLine /\ UNCHANGED <<san_vars, gw_locals, conc_vars, host_vars>>
    \/ CallParse /\ UNCHANGED <<san_vars, gw_locals, conc_vars, host_vars>>

\* a model starts a text; nothing else is running
ParseStart == ParseInit /\ SanIdle /\ GwIdle /\ ConcIdle /\ HostIdle

\* _parse_tool_calls_from_content on every text within the bounds
ParseSpec == ParseStart /\ [][ParseNext]_vars

ConcNext ==
    \/ \E t \in Threads :
          ConcInvoke(t) /\ UNCHANGED <<san_vars, parse_vars, gw_locals, host_vars>>
    \/ \E t \in Threads :
          ConcForward(t) /\ UNCHANGED <<san_vars, parse_vars, gw_locals, host_vars>>
    \/ \E t \in Threads :
          ConcSanitize(t) /\ UNCHANGED <<san_vars, parse_vars, gw_locals, host_vars>>
    \/ \E t \in Threads :
          ConcInject(t) /\ UNCHANGED <<san_vars, parse_vars, gw_locals, host_vars>>
    \/ \E t \in Threads :
          ConcProvider(t) /\ UNCHANGED <<san_vars, parse_vars, gw_locals, host_vars>>
    \/ \E t \in Threads :
          ConcParse(t) /\ UNCHANGED <<san_vars, parse_vars, gw_locals, host_vars>>
    \/ \E t \in Threads :
          ConcAssemble(t) /\ UNCHANGED <<san_vars, parse_vars, gw_locals, host_vars>>

\* no call has started in any thread
HostNext ==
    \/ HostUserInput /\ UNCHANGED <<san_vars, parse_vars, gw_locals, conc_vars>>
    \/ HostReset /\ UNCHANGED <<san_vars, parse_vars, gw_locals, conc_vars>>
    \/ HostToolRound /\ UNCHANGED <<san_vars, parse_vars, gw_locals, conc_vars>>
    \/ HostAnswer /\ UNCHANGED <<san_vars, parse_vars, gw_locals, conc_vars>>
    \/ HostFailure /\ UNCHANGED <<san_vars, parse_vars, gw_locals, conc_vars>>

\* the host starts a session; nothing else is running
HostStart == HostInit /\ SanIdle /\ ParseIdle /\ GwIdle /\ ConcIdle

\* chat_loop() with a model on the emulated path
HostSpec == HostStart /\ [][HostNext]_vars

ConcStart == SanIdle /\ ParseIdle /\ GwIdle /\ ConcIdle /\ HostIdle

\* completion() called once by each thread, the steps of the calls
\* interleaved in every way
ConcSpec == ConcStart /\ [][ConcNext]_vars

---------------------------------------------------------------------------
(* Claims about _sanitize_messages, checked under SanSpec *)

\* the messages of a transcript that are not tool messages
NonTool(msgs) == SelectSeq(msgs, LAMBDA m : m.role # "tool")

\* where message i of the transcript lands in the sanitized transcript
OutIndex(msgs, i) == Len(NonTool(SubSeq(msgs, 1, i)))

\* number of places where text s occurs in text t
Occurrences(s, t) ==
    Cardinality({i \in 0..(Len(t) - Len(s)) : SubSeq(t, i + 1, i + Len(s)) = s})

\* some tool message with a content key carries this id
Answered(msgs, id) ==
    \E j \in DOMAIN msgs :
        /\ msgs[j].role = "tool"
        /\ msgs[j].tool_call_id = id
        /\ "content" \in msgs[j].keys

\* a user message whose text holds the marker phrase
HasMarker(m) ==
    m.role = "user" /\ \E k \in DOMAIN m.content : m.content[k] = Marker

\* the call returned a list with the reminder appended
ReminderAppended ==
    /\ san_pc = "returned"
    /\ Len(sanitized_messages) = Len(NonTool(messages)) + 1

\* C4: the output of sanitize holds no tool-role message and no message with
\* a tool_calls field, whatever add_reminder is; and an assistant message
\* with one tool call named get_task that a tool message answers becomes an
\* assistant message whose content contains "Tool 'get_task' returned:".
C4_NoToolTurns ==
    san_pc = "returned" =>
        /\ \A k \in DOMAIN sanitized_messages :
              /\ sanitized_messages[k].role # "tool"
              /\ "tool_calls" \notin sanitized_messages[k].keys
              /\ "tool_call_id" \notin sanitized_messages[k].keys
        /\ \A i \in DOMAIN messages :
              ( /\ messages[i].role = "assistant"
                /\ "tool_calls" \in messages[i].keys
                /\ Len(messages[i].tool_calls) = 1
                /\ messages[i].tool_calls[1].name = "get_task"
                /\ Answered(messages, messages[i].tool_calls[1].id) )
              => LET m == sanitized_messages[OutIndex(messages, i)]
                 IN  /\ m.role = "assistant"
                     /\ IsSubstr(<<"Tool '", "get_task", "' returned: ">>,
                                 m.content)

\* C4 witness: a transcript with the get_task call and the tool message that
\* answers it was sanitized; the result line was written by sanitize
C4_Witness ==
    /\ san_pc = "returned"
    /\ Len(messages) = 2
    /\ messages[1].role = "assistant"
    /\ messages[1].none
    /\ Len(messages[1].tool_calls) = 1
    /\ messages[1].tool_calls[1].name = "get_task"
    /\ messages[2].role = "tool"
    /\ messages[2].tool_call_id = messages[1].tool_calls[1].id
    /\ Len(sanitized_messages) = 1
    /\ IsSubstr(<<"Tool '", "get_task", "' returned: ">>,
                sanitized_messages[1].content)

\* C5 (as claimed): for every assistant message with tool_calls and every
\* call of it that a tool message answers, the replacement's content holds
\* that call's line "Tool '<name>' returned: <result>" exactly once.
C5_EachResolvedLineOnce ==
    san_pc = "returned" =>
        \A i \in DOMAIN messages :
            (messages[i].role = "assistant" /\ HasToolCalls(messages[i])) =>
                \A k \in DOMAIN messages[i].tool_calls :
                    LET id == messages[i].tool_calls[k].id
                        responses == _find_tool_responses(messages)
                    IN  Answered(messages, id) =>
                            Occurrences(
                                ResultText(responses[id]),
                                sanitized_messages[OutIndex(messages, i)].content) = 1

\* no tool-role message and no assistant message with tool calls
AlreadySanitized(msgs) ==
    \A i \in DOMAIN msgs :
        msgs[i].role # "tool" /\ ~HasToolCalls(msgs[i])

ToolCallInLast(msgs, n) ==
    \E i \in DOMAIN msgs :
        /\ i > Len(msgs) - n
        /\ msgs[i].role = "assistant"
        /\ HasToolCalls(msgs[i])

\* the last message that is not a tool message is a reminder
LastIsReminder(msgs) ==
    /\ NonTool(msgs) # <<>>
    /\ HasMarker(NonTool(msgs)[Len(NonTool(msgs))])

\* C7 (as claimed): a reminder is appended exactly when add_reminder is
\* true, an assistant tool call lies within the last 4 messages of the
\* original transcript and the last message is not already a reminder.
C7_Original ==
    san_pc = "returned" =>
        (ReminderAppended <=>
            /\ add_tool_reminder
            /\ ToolCallInLast(messages, 4)
            /\ ~LastIsReminder(messages))

\* C7 (amended): a reminder is appended exactly when add_reminder is true,
\* an assistant tool call lies within the last 10 messages of the original
\* transcript and the last message that is not a tool message is not
\* already a reminder; the appended message is a user message with the
\* marker phrase. Sanitize returns in every case but one: with add_reminder
\* true and a tool call within the last 10 messages, a last non-tool message
\* that is a user message with content None makes it raise.
C7_ReminderWindow ==
    /\ san_pc = "returned" =>
          /\ Len(sanitized_messages) \in
                {Len(NonTool(messages)), Len(NonTool(messages)) + 1}
          /\ ReminderAppended <=>
                /\ add_tool_reminder
                /\ ToolCallInLast(messages, 10)
                /\ ~LastIsReminder(messages)
          /\ ReminderAppended =>
                HasMarker(sanitized_messages[Len(sanitized_messages)])
    /\ san_pc = "raised" <=>
          /\ san_pc # "build"
          /\ add_tool_reminder
          /\ ToolCallInLast(messages, 10)
          /\ LET b == NonTool(messages)
             IN  b # <<>> /\ b[Len(b)].role = "user" /\ b[Len(b)].none

\* C7 witness: a reminder was appended although the only tool call lies
\* before the last 4 messages
C7_Witness ==
    /\ ReminderAppended
    /\ ~ToolCallInLast(messages, 4)
    /\ ToolCallInLast(messages, 10)
    /\ Len(messages) = 10

\* C8: when the last message of the transcript is already a reminder,
\* sanitize with add_reminder = true appends nothing; sanitize never
\* appends more than one message, and its output ends with two reminders
\* only if the transcript itself did.
C8_NoSecondReminder ==
    san_pc # "build" =>
        /\ (messages # <<>> /\ HasMarker(messages[Len(messages)])) =>
              /\ san_pc = "returned"
              /\ Len(sanitized_messages) = Len(NonTool(messages))
        /\ Len(sanitized_messages) <= Len(NonTool(messages)) + 1
        /\ LET n == Len(sanitized_messages)
               b == NonTool(messages)
           IN  (/\ n >= 2
                /\ HasMarker(sanitized_messages[n])
                /\ HasMarker(sanitized_messages[n - 1]))
               => /\ Len(b) = n
                  /\ HasMarker(b[n]) /\ HasMarker(b[n - 1])

\* C8 witness: add_reminder was true, a tool call is recent and the last
\* message is a reminder: nothing was appended
C8_Witness ==
    /\ san_pc = "returned"
    /\ add_tool_reminder
    /\ ToolCallInLast(messages, 4)
    /\ HasMarker(messages[Len(messages)])
    /\ Len(sanitized_messages) = Len(NonTool(messages))
    /\ HasMarker(sanitized_messages[Len(sanitized_messages)])

\* content that is None or has no key
AbsentContent(m) == m.none \/ "content" \notin m.keys

\* a system message, a user message or an assistant message without
\* tool calls
PassedThrough(m) ==
    \/ m.role \in {"system", "user"}
    \/ m.role = "assistant" /\ ~HasToolCalls(m)

\* same role and same content, None and a missing key told apart
SameRoleAndContent(a, b) ==
    /\ a.role = b.role
    /\ ("content" \in a.keys) = ("content" \in b.keys)
    /\ a.none = b.none
    /\ a.content = b.content

LinePrefix(name) == <<"Tool '", name, "' returned: ">>

\* the calls of message m that a tool message answers / that none answers
AnsweredCalls(msgs, m) ==
    {k \in DOMAIN m.tool_calls : Answered(msgs, m.tool_calls[k].id)}

UnansweredCalls(msgs, m) == DOMAIN m.tool_calls \ AnsweredCalls(msgs, m)

\* C23 (as claimed): when a tool call of an assistant message has no
\* answering tool-role message, sanitize completes normally, the message
\* that replaces the assistant message holds no "Tool '<name>' returned:"
\* line for that call (none beyond those of its own text and of the
\* answered calls), and the lines of the answered calls of the same message
\* are inlined.
C23_MissingResultOmitted ==
    san_pc # "build" =>
        \A i \in DOMAIN messages :
            LET m == messages[i]
            IN  ( /\ m.role = "assistant"
                  /\ HasToolCalls(m)
                  /\ UnansweredCalls(messages, m) # {} )
                => /\ san_pc = "returned"
                   /\ LET out == sanitized_messages[OutIndex(messages, i)]
                          responses == _find_tool_responses(messages)
                      IN  /\ \A k \in UnansweredCalls(messages, m) :
                                Occurrences(LinePrefix(m.tool_calls[k].name),
                                            out.content)
                                <= Occurrences(LinePrefix(m.tool_calls[k].name),
                                               m.content)
                                   + Cardinality(
                                       {j \in AnsweredCalls(messages, m) :
                                           m.tool_calls[j].name
                                               = m.tool_calls[k].name})
                          /\ \A j \in AnsweredCalls(messages, m) :
                                IsSubstr(ResultText(responses[m.tool_calls[j].id]),
                                         out.content)

\* C20 (as claimed): for every assistant message with tool_calls whose
\* content is empty or absent, the content of the message that replaces it
\* begins with the placeholder "I need to look up some information for
\* you.", whether or not a tool-role message answers any of its calls.
C20_PlaceholderWhenEmpty ==
    san_pc = "returned" =>
        \A i \in DOMAIN messages :
            ( /\ messages[i].role = "assistant"
              /\ HasToolCalls(messages[i])
              /\ (AbsentContent(messages[i]) \/ messages[i].content = <<>>) )
            => LET out == sanitized_messages[OutIndex(messages, i)]
               IN  /\ out.content # <<>>
                   /\ out.content[1] = Placeholder

\* C29 (as claimed): sanitize never fails on a well-formed transcript: for
\* every transcript of messages whose content is text or absent and either
\* value of add_reminder, also when tool calls are recent and the last
\* non-tool message has absent content, it returns a transcript and raises
\* nothing.
C29_SanitizeNeverRaises == san_pc # "raised"

\* C30: sanitize preserves order and count: when it returns, the output
\* has one message for each non-tool message of the input, in the same
\* order and with the same role, followed by at most one more message, the
\* reminder, so its length is the number of non-tool input messages plus 0
\* or 1.
C30_OrderAndCount ==
    san_pc = "returned" =>
        LET kept == NonTool(messages)
            n == Len(kept)
        IN  /\ Len(sanitized_messages) \in {n, n + 1}
            /\ \A i \in 1..n : sanitized_messages[i].role = kept[i].role
            /\ Len(sanitized_messages) = n + 1 =>
                  /\ add_tool_reminder
                  /\ HasMarker(sanitized_messages[n + 1])

\* C30 witness: a transcript with a system message, an assistant message
\* with a tool call and the tool message answering it was sanitized with
\* add_reminder; the output is the system message, the assistant message
\* and the reminder
C30_Witness ==
    /\ san_pc = "returned"
    /\ Len(messages) = 3
    /\ messages[1].role = "system"
    /\ messages[2].role = "assistant"
    /\ messages[3].role = "tool"
    /\ Len(sanitized_messages) = 3
    /\ sanitized_messages[1].role = "system"
    /\ sanitized_messages[2].role = "assistant"
    /\ HasMarker(sanitized_messages[3])

---------------------------------------------------------------------------
(* completion(): the specification *)

Init == SanIdle /\ ParseIdle /\ GwIdle /\ ConcIdle /\ HostIdle

Next ==
    \/ Invoke /\ UNCHANGED <<san_vars, parse_vars, conc_vars, host_vars>>
    \/ ForwardReturns /\ UNCHANGED <<san_vars, parse_vars, conc_vars, host_vars>>
    \/ ForwardRaises /\ UNCHANGED <<san_vars, parse_vars, conc_vars, host_vars>>
    \/ Sanitize /\ UNCHANGED <<san_vars, parse_vars, conc_vars, host_vars>>
    \/ Inject /\ UNCHANGED <<san_vars, parse_vars, conc_vars, host_vars>>
    \/ ProviderReturns /\ UNCHANGED <<san_vars, parse_vars, conc_vars, host_vars>>
    \/ ProviderRaises /\ UNCHANGED <<san_vars, parse_vars, conc_vars, host_vars>>
    \/ Parse /\ UNCHANGED <<san_vars, parse_vars, conc_vars, host_vars>>
    \/ Assemble /\ UNCHANGED <<san_vars, parse_vars, conc_vars, host_vars>>
    \/ Return /\ UNCHANGED <<san_vars, parse_vars, conc_vars, host_vars>>

Spec == Init /\ [][Next]_vars

---------------------------------------------------------------------------
(* Claims about completion(), checked under Spec *)

\* the catalog is absent or empty, or the model is native-capable and the
\* catalog is not empty
StrictPassThrough(kw) ==
    \/ kw.tools = <<>>
    \/ kw.model \in DOMAIN ModelTable /\ ModelTable[kw.model]

\* a model identifier the capability table does not report as native
NotNativeCapable(kw) ==
    /\ kw.model # ""
    /\ ~(kw.model \in DOMAIN ModelTable /\ ModelTable[kw.model])

\* a user turn that holds the tool instructions and names every tool
IsInstructionTurn(m, tools) ==
    /\ m.role = "user"
    /\ ~m.none
    /\ \E k \in DOMAIN m.content : m.content[k] = ToolInstructions
    /\ \A t \in DOMAIN tools :
          \E k \in DOMAIN m.content : m.content[k] = tools[t].name

\* the request carries neither tools nor tool_choice, and its transcript
\* ends with the instruction turn
IsEmulatedRequest(req, tools) ==
    /\ "tools" \notin req.keys
    /\ "tool_choice" \notin req.keys
    /\ req.tools = <<>>
    /\ req.messages # <<>>
    /\ IsInstructionTurn(req.messages[Len(req.messages)], tools)

\* C1 (as claimed): every invocation of completion() issues exactly one call
\* to the underlying completion API, in every mode and whether or not the
\* provider call succeeds: never zero calls, never a second one.
C1_ExactlyOneProviderCall ==
    pc \in {"done", "failed"} => Len(provider_calls) = 1

\* C2: with the catalog absent or empty, or with a native-capable model and
\* a catalog, the request goes to the provider with every argument
\* unchanged and the provider's response comes back unchanged.
C2_StrictPassThrough ==
    (pc # "idle" /\ StrictPassThrough(kwargs)) =>
        /\ pc \in {"forward", "done", "failed"}
        /\ pc = "forward" => provider_calls = <<>>
        /\ pc \in {"done", "failed"} => provider_calls = <<kwargs>>
        /\ pc = "done" =>
              /\ result.status = "returned"
              /\ result.response = response
        /\ pc = "failed" => result.status = "raised"

\* C2 witness: a native-capable model with the catalog and a tool-choice
\* policy; the provider saw both and its response was returned
C2_Witness ==
    /\ pc = "done"
    /\ kwargs.model = "gpt-4o"
    /\ kwargs.tools = Catalog
    /\ kwargs.tool_choice = "auto"
    /\ provider_calls = <<kwargs>>
    /\ result.response = response
    /\ response.choices # <<>>
    /\ response.choices[1].finish_reason = "tool_calls"

\* C3 (as claimed): for every model that is not reported native-capable,
\* every non-empty catalog and every transcript, the empty one included,
\* the emulated path is taken: the request forwarded carries no catalog and
\* no tool-choice policy and ends with the instruction turn.
C3_Original ==
    (pc # "idle" /\ NotNativeCapable(kwargs) /\ kwargs.tools # <<>>) =>
        /\ pc # "forward"
        /\ \A i \in DOMAIN provider_calls :
              IsEmulatedRequest(provider_calls[i], kwargs.tools)

\* C3 (amended): the same for every non-empty transcript; with the empty
\* transcript the request is passed to the provider unchanged, catalog
\* included.
C3_EmulatedPath ==
    (pc # "idle" /\ NotNativeCapable(kwargs) /\ kwargs.tools # <<>>) =>
        IF kwargs.messages # <<>>
        THEN /\ pc # "forward"
             /\ \A i \in DOMAIN provider_calls :
                   IsEmulatedRequest(provider_calls[i], kwargs.tools)
        ELSE /\ pc \in {"forward", "done", "failed"}
             /\ \A i \in DOMAIN provider_calls : provider_calls[i] = kwargs

\* C3 witness: a model the table does not know, a catalog with a
\* tool-choice policy and a transcript; the provider got the request
C3_Witness ==
    /\ pc = "parse"
    /\ kwargs.model = "my-local-model"
    /\ kwargs.tools = Catalog
    /\ "tool_choice" \in kwargs.keys
    /\ Len(kwargs.messages) = 2
    /\ Len(provider_calls) = 1
    /\ IsEmulatedRequest(provider_calls[1], kwargs.tools)

\* C10: the tool calls the parser returns carry identifiers that differ
\* from one another and from every identifier returned by an earlier
\* invocation, also when their lines are identical.
C10_FreshIdentifiers ==
    /\ \A i, j \in DOMAIN parsed_tool_calls :
          i # j => parsed_tool_calls[i].id # parsed_tool_calls[j].id
    /\ \A i \in DOMAIN parsed_tool_calls :
          parsed_tool_calls[i].id \notin issued

\* C10 witness: a second invocation parsed two identical call lines after
\* the first one had returned calls
C10_Witness ==
    /\ pc = "done"
    /\ invocations = 1
    /\ issued # {}
    /\ Len(parsed_tool_calls) = 2
    /\ parsed_tool_calls[1].name = parsed_tool_calls[2].name
    /\ parsed_tool_calls[1].arguments = parsed_tool_calls[2].arguments
    /\ ResponseContent(response) = Text(<<L_noargs, "\n", L_noargs>>)

\* an emulated invocation has returned a response to the application
EmulatedDone ==
    /\ pc = "done"
    /\ Mode(kwargs) = "emulated"
    /\ result.status = "returned"

\* C12: in emulated mode, when the parser returned a non-empty list, the
\* response returned has exactly one Choice, with finish_reason tool_calls
\* and a message whose content is absent and whose tool_calls is the parsed
\* list in its order, and has the id, model, created timestamp and usage of
\* the provider's raw response.
C12_ToolCallAssembly ==
    (EmulatedDone /\ parsed_tool_calls # <<>>) =>
        LET out == result.response
        IN  /\ Len(out.choices) = 1
            /\ out.choices[1].finish_reason = "tool_calls"
            /\ out.choices[1].message.content = NoneText
            /\ out.choices[1].message.tool_calls = parsed_tool_calls
            /\ out.id = response.id
            /\ out.model = response.model
            /\ out.created = response.created
            /\ out.usage = response.usage

\* C12 witness: the raw response ended with stop and held the text of two
\* calls; the response returned carries the two calls
C12_Witness ==
    /\ EmulatedDone
    /\ response.choices # <<>>
    /\ parsed_tool_calls # <<>>
    /\ response.choices[1].finish_reason = "stop"
    /\ ~response.choices[1].message.content.none
    /\ Len(parsed_tool_calls) = 2
    /\ result.response.choices[1].finish_reason = "tool_calls"
    /\ result.response.choices[1].message.content.none
    /\ Len(result.response.choices[1].message.tool_calls) = 2
    /\ result.response.id = "resp-1"

\* C13: in emulated mode, when the parser extracted no call from the raw
\* response, the Choice returned never has finish_reason tool_calls (a raw
\* tool_calls becomes stop) and every other field of the response returned
\* equals the raw response.
C13_PlainAssembly ==
    (EmulatedDone /\ parsed_tool_calls = <<>>) =>
        LET out == result.response
        IN  /\ out.id = response.id
            /\ out.model = response.model
            /\ out.created = response.created
            /\ out.usage = response.usage
            /\ Len(out.choices) = Len(response.choices)
            /\ \A i \in DOMAIN out.choices :
                  /\ out.choices[i].finish_reason # "tool_calls"
                  /\ out.choices[i].finish_reason =
                        IF response.choices[i].finish_reason = "tool_calls"
                        THEN "stop"
                        ELSE response.choices[i].finish_reason
                  /\ out.choices[i].index = response.choices[i].index
                  /\ out.choices[i].message = response.choices[i].message

\* C13 witness: the raw response ended with tool_calls and plain text; the
\* response returned ends with stop and has the same text
C13_Witness ==
    /\ EmulatedDone
    /\ parsed_tool_calls = <<>>
    /\ response.choices # <<>>
    /\ response.choices[1].finish_reason = "tool_calls"
    /\ response.choices[1].message.content = Text(<<"Sure", " ", "thing">>)
    /\ result.response.choices[1].finish_reason = "stop"
    /\ result.response.choices[1].message = response.choices[1].message

\* C14: when the provider call fails, in any mode, completion() raises the
\* same failure, has issued that one provider call and no other, has
\* parsed and assembled nothing and returns no response.
C14_ProviderFailure ==
    provider_error # "" =>
        /\ pc = "failed"
        /\ result.status = "raised"
        /\ result.error = provider_error
        /\ result.response = NoResponse
        /\ Len(provider_calls) = 1
        /\ response = NoResponse
        /\ parsed_tool_calls = <<>>

\* C14 witness: the provider refused an emulated request
C14_Witness ==
    /\ pc = "failed"
    /\ Mode(kwargs) = "emulated"
    /\ provider_error = "RateLimitError"
    /\ result.error = "RateLimitError"
    /\ provider_calls = <<call_kwargs>>

SystemMessages(msgs) == SelectSeq(msgs, LAMBDA m : m.role = "system")

\* C17: in emulated mode the transcript forwarded to the provider is the
\* sanitized transcript, then the reminder when one was appended, then
\* exactly one new user message with the rendered instruction text, which
\* is the last message; every system message has the content it has in the
\* caller's transcript.
C17_InstructionTurnLast ==
    (Mode(kwargs) = "emulated" /\ provider_calls # <<>>) =>
        LET sent == provider_calls[1].messages
            n == Len(sent)
            kept == Len(NonTool(kwargs.messages))
        IN  /\ n \in {kept + 1, kept + 2}
            /\ sent[n] =
                  Msg("user", _generate_tool_prompt(kwargs.tools,
                                                    has_recent_tools))
            /\ IsInstructionTurn(sent[n], kwargs.tools)
            /\ \A i \in 1..(n - 1) : ~IsInstructionTurn(sent[i], kwargs.tools)
            /\ n = kept + 2 => HasMarker(sent[n - 1])
            /\ \A i \in 1..kept : sent[i].role = NonTool(kwargs.messages)[i].role
            /\ SystemMessages(sent) = SystemMessages(kwargs.messages)

\* C17 witness: a transcript with a system message and a recent tool call
\* went out as system message, assistant message, reminder, instruction
\* turn
C17_Witness ==
    /\ Mode(kwargs) = "emulated"
    /\ Len(provider_calls) = 1
    /\ Len(kwargs.messages) = 2
    /\ kwargs.messages[1] = Msg("system", <<"sys">>)
    /\ HasToolCalls(kwargs.messages[2])
    /\ Len(provider_calls[1].messages) = 4
    /\ provider_calls[1].messages[1] = Msg("system", <<"sys">>)
    /\ HasMarker(provider_calls[1].messages[3])
    /\ IsInstructionTurn(provider_calls[1].messages[4], kwargs.tools)

\* C18 (as claimed): within an emulated invocation the steps go sanitize,
\* inject, provider call, parse, assemble, each entered once and only from
\* its predecessor; once the provider call has returned, the invocation
\* goes through parse and one of the two assemblies (tool calls parsed, or
\* none) to done.
C18_StrictSequence ==
    [][ /\ pc' = "inject" => pc = "sanitize"
        /\ pc' = "call_provider" => pc = "inject"
        /\ pc' = "parse" => pc = "call_provider"
        /\ pc' = "assemble" => pc = "parse"
        /\ pc = "sanitize" => pc' \in {"inject", "failed"}
        /\ pc = "inject" => pc' = "call_provider"
        /\ pc = "call_provider" => pc' \in {"parse", "failed"}
        /\ pc = "parse" => pc' = "assemble"
        /\ pc = "assemble" =>
              /\ pc' = "done"
              /\ result'.response =
                    IF parsed_tool_calls # <<>>
                    THEN ToolCallResponse(response, parsed_tool_calls)
                    ELSE PlainResponse(response)
      ]_<<pc, result>>

\* C22 (as claimed): for every response the gateway returns in emulated
\* mode, finish_reason is tool_calls if and only if the returned message's
\* tool_calls is non-empty, whatever the raw response of the provider was.
C22_FinishReasonConsistent ==
    (EmulatedDone /\ result.response.choices # <<>>) =>
        LET choice == result.response.choices[1]
        IN  choice.finish_reason = "tool_calls"
                <=> choice.message.tool_calls # <<>>

\* an assistant message with tool calls or a tool message among the last n
\* messages
ToolUsageInLast(msgs, n) ==
    \E i \in DOMAIN msgs :
        /\ i > Len(msgs) - n
        /\ \/ msgs[i].role = "tool"
           \/ msgs[i].role = "assistant" /\ HasToolCalls(msgs[i])

\* the instruction turn of a forwarded transcript holds the addendum
HasAddendum(fwd) ==
    /\ fwd # <<>>
    /\ \E k \in DOMAIN fwd[Len(fwd)].content :
          fwd[Len(fwd)].content[k] = RecentUsageNote

\* C25: in emulated mode the instruction text holds the addendum about
\* already-retrieved information exactly when the last 4 messages of the
\* caller's transcript hold an assistant message with tool_calls or a
\* tool-role message; the same flag is the add_reminder of the sanitizer,
\* so the forwarded transcript never holds an appended reminder without
\* the addendum in the instruction text.
C25_AddendumWithRecentUsage ==
    (Mode(kwargs) = "emulated" /\ provider_calls # <<>>) =>
        LET fwd == provider_calls[1].messages
        IN  /\ HasAddendum(fwd) <=> ToolUsageInLast(kwargs.messages, 4)
            /\ has_recent_tools <=> ToolUsageInLast(kwargs.messages, 4)
            /\ Len(fwd) = Len(NonTool(kwargs.messages)) + 2 =>
                  /\ HasMarker(fwd[Len(fwd) - 1])
                  /\ HasAddendum(fwd)
            /\ Len(fwd) \in {Len(NonTool(kwargs.messages)) + 1,
                              Len(NonTool(kwargs.messages)) + 2}

\* C25 witness: a transcript whose tool message is the fifth message from
\* the end was forwarded without addendum and without reminder
C25_Witness ==
    /\ Mode(kwargs) = "emulated"
    /\ provider_calls # <<>>
    /\ kwargs.messages = AgedTranscript(4)
    /\ ~HasAddendum(provider_calls[1].messages)
    /\ Len(provider_calls[1].messages) = Len(NonTool(kwargs.messages)) + 1

---------------------------------------------------------------------------
(* Claims about concurrent calls of completion(), checked under ConcSpec *)

\* the requests a call with the arguments kw forwards when no other call
\* runs
SoloRequests(kw) ==
    IF Mode(kw) # "emulated" THEN {kw}
    ELSE LET recent == _has_recent_tool_calls(kw.messages)
             prompt == Msg("user", _generate_tool_prompt(kw.tools, recent))
         IN  { EmulatedKwargs(kw,
                   Append(_sanitize_messages(kw.messages, recent, o).out,
                          prompt)) :
                 o \in NameOrders(_find_recent_tool_calls(kw.messages)) }

\* what such a call returns when the provider answers resp and u
\* identifiers were drawn before
SoloResult(kw, resp, u) ==
    IF Mode(kw) # "emulated" THEN ReturnedResult(resp)
    ELSE LET r == _parse_tool_calls_from_content(ResponseContent(resp), u)
         IN  ReturnedResult(IF r.calls # <<>>
                            THEN ToolCallResponse(resp, r.calls)
                            ELSE PlainResponse(resp))

\* C16 (as claimed): whatever the other thread does and has done, the
\* request a call forwards and the response it returns are those of the
\* same call running alone.
C16_Original ==
    \A t \in Threads :
        LET f == frames[t]
        IN  /\ f.provider_calls # <<>> =>
                  \E req \in SoloRequests(f.kwargs) : f.provider_calls = <<req>>
            /\ f.pc = "done" =>
                  f.result = SoloResult(f.kwargs, f.response, 0)

\* C16 (amended): the request forwarded is that of the same call running
\* alone, and so is the response returned, but for the identifiers of the
\* tool calls in it, which are drawn fresh and so differ from those the
\* other call got.
C16_Stateless ==
    /\ \A t \in Threads :
          LET f == frames[t]
          IN  /\ f.provider_calls # <<>> =>
                    \E req \in SoloRequests(f.kwargs) :
                        f.provider_calls = <<req>>
              /\ f.pc = "done" =>
                    \E u \in 0..uuid_state :
                        f.result = SoloResult(f.kwargs, f.response, u)
    /\ \A t, o \in Threads :
          t # o =>
             \A i \in DOMAIN frames[t].parsed_tool_calls :
                \A j \in DOMAIN frames[o].parsed_tool_calls :
                   frames[t].parsed_tool_calls[i].id
                      # frames[o].parsed_tool_calls[j].id

\* C16 witness: both threads made an emulated call with a transcript of
\* their own and both got tool calls back; the first thread's answer was
\* parsed after the second's
C16_Witness ==
    /\ \A t \in Threads :
          /\ frames[t].pc = "done"
          /\ Mode(frames[t].kwargs) = "emulated"
          /\ Len(frames[t].parsed_tool_calls) = 2
    /\ frames["t1"].kwargs.messages # frames["t2"].kwargs.messages
    /\ frames["t1"].has_recent_tools
    /\ ~frames["t2"].has_recent_tools
    /\ frames["t2"].parsed_tool_calls[1].id = uuid4(0)
    /\ frames["t1"].parsed_tool_calls[1].id = uuid4(2)

---------------------------------------------------------------------------
(* Claims about _parse_tool_calls_from_content, checked under ParseSpec *)

\* the lines the parser examines
CleanLines(c) ==
    IF c.none THEN <<>> ELSE SplitLines(Strip(StripThink(c.text)))

\* a line that is one JSON object with a name key
IsCallLine(line) ==
    /\ Len(Strip(line)) = 1
    /\ Strip(line)[1] \in JsonObjectTokens
    /\ ObjectOf(Strip(line)[1]).has_name

\* the text is a thinking span, two call lines and a malformed brace line,
\* each on a line of its own, in any order
ToleranceScenario(c) ==
    /\ ~c.none
    /\ LET raw == SplitLines(c.text)
           n(S) == Cardinality({i \in DOMAIN raw : raw[i] \in S})
       IN  /\ Len(raw) = 4
           /\ n({<<"<think>", "ok", "</think>">>}) = 1
           /\ n({<<L_bad>>}) = 1
           /\ n({<<L_noargs>>, <<L_args>>, <<" ", L_noargs, " ">>}) = 2

\* C9 (as claimed): the parser never raises and never stops early: a brace line that does
\* not parse, or parses without a name, is skipped and the later lines are
\* still examined, so the result has one call per call line; a thinking
\* span, two call lines and a malformed line give exactly two calls; no
\* qualifying line, or no text, gives the empty list.
C9_ParserTolerant ==
    /\ parse_pc # "raised"
    /\ parse_pc = "returned" =>
          LET lines == CleanLines(content)
          IN  /\ Len(tool_calls) =
                    Cardinality({i \in DOMAIN lines : IsCallLine(lines[i])})
              /\ ToleranceScenario(content) => Len(tool_calls) = 2
              /\ (content.none \/ content.text = <<>>) => tool_calls = <<>>

\* the call lines among the lines the parser examines, in their order
CallLines(c) == SelectSeq(CleanLines(c), IsCallLine)

\* the arguments the claim gives a call line: its mapping; the empty
\* mapping when the key is absent; for a string, the mapping it decodes to,
\* or the empty mapping when it does not decode
ReferenceArguments(tok) ==
    CASE tok = L_noargs -> "{}"
      [] tok = L_args   -> "{\"state\": \"active\"}"
      [] tok = L_str    -> "{\"id\": 1}"
      [] tok = L_strbad -> "{}"

\* the name the claim gives a call line
ReferenceName(tok) ==
    CASE tok \in {L_noargs, L_str, L_strbad} -> "get_task"
      [] tok = L_args -> "list_goals"

\* C11: when the parser returns, its list has one call per line that,
\* trimmed, starts with '{', ends with '}', parses as an object and has a
\* name key, in the order of the lines and nothing else; each call has the
\* name of its line and, as arguments, the mapping of its line, the empty
\* mapping when the key is absent, the decoded mapping when arguments is
\* a string that decodes to one, the empty mapping when it does not decode.
C11_ParserReference ==
    parse_pc = "returned" =>
        LET ref == CallLines(content)
        IN  /\ Len(tool_calls) = Len(ref)
            /\ \A i \in DOMAIN ref :
                  LET tok == Strip(ref[i])[1]
                  IN  tok \in {L_noargs, L_args, L_str, L_strbad} =>
                         /\ tool_calls[i].name = ReferenceName(tok)
                         /\ tool_calls[i].arguments = ReferenceArguments(tok)

\* C11 witness: a text with a call whose arguments are a string that
\* decodes, one whose string does not decode, one without arguments and a
\* line that is no call was parsed
C11_Witness ==
    /\ parse_pc = "returned"
    /\ Len(SplitLines(content.text)) = 4
    /\ Len(tool_calls) = 3
    /\ \E i, j, k \in DOMAIN tool_calls :
          /\ i < j
          /\ Strip(CallLines(content)[i])[1] = L_str
          /\ Strip(CallLines(content)[j])[1] = L_strbad
          /\ Strip(CallLines(content)[k])[1] = L_noargs
          /\ tool_calls[i].arguments = "{\"id\": 1}"
          /\ tool_calls[j].arguments = "{}"

\* the arguments strings that hold a JSON object
MappingDumps == {"{}", "{\"state\": \"active\"}", "{\"id\": 1}"}

\* C21 (as claimed): every tool call the parser returns has arguments that
\* are a mapping, whatever the arguments key of its line holds (a mapping, a
\* string, a list, null, ...); a payload that is no mapping and does not
\* decode to one is replaced by the empty mapping.
C21_ArgumentsAreMapping ==
    parse_pc = "returned" =>
        \A k \in DOMAIN tool_calls : tool_calls[k].arguments \in MappingDumps

\* position p of the text lies inside a closed thinking span: an opening
\* tag before it with no closing tag in between, and a closing tag after it
InClosedSpan(text, p) ==
    /\ \E o \in 1..(p - 1) :
          /\ IsThinkOpen(text[o])
          /\ \A k \in (o + 1)..(p - 1) : ~IsThinkClose(text[k])
    /\ \E j \in (p + 1)..Len(text) : IsThinkClose(text[j])

\* the line of the text, as the model wrote it, that position p lies on
RawLineAt(text, p) ==
    LET breaks == {k \in DOMAIN text : text[k] = "\n"}
        before == {k \in breaks : k < p}
        after  == {k \in breaks : k > p}
        from   == IF before = {} THEN 1
                  ELSE (CHOOSE k \in before : \A m \in before : m <= k) + 1
        to     == IF after = {} THEN Len(text)
                  ELSE (CHOOSE k \in after : \A m \in after : k <= m) - 1
    IN  SubSeq(text, from, to)

\* positions of the JSON objects with a name key
CallTokenPositions(text) ==
    {p \in DOMAIN text :
        text[p] \in JsonObjectTokens /\ ObjectOf(text[p]).has_name}

\* positions of the call lines that lie outside every closed thinking span
OutsideCallLines(text) ==
    {p \in CallTokenPositions(text) :
        IsCallLine(RawLineAt(text, p)) /\ ~InClosedSpan(text, p)}

\* the names of the objects at the positions P, in the order of the text
RECURSIVE NamesAt(_, _)
NamesAt(text, P) ==
    IF P = {} THEN <<>>
    ELSE LET p == CHOOSE q \in P : \A r \in P : q <= r
         IN  <<ObjectOf(text[p]).name>> \o NamesAt(text, P \ {p})

\* C24: thinking spans are removed before the lines are examined: when the
\* parser returns, no call comes from an object inside a closed
\* <think>...</think> span, whatever the case of the tags and however many
\* lines the span covers, and the call lines outside every span each give
\* their call, in order.
C24_ThinkingSpansRemoved ==
    (parse_pc = "returned" /\ ~content.none) =>
        LET text == content.text
            outside == OutsideCallLines(text)
        IN  /\ Len(tool_calls) <=
                  Cardinality({p \in CallTokenPositions(text) :
                                  ~InClosedSpan(text, p)})
            /\ Len(tool_calls) >= Cardinality(outside)
            /\ Len(tool_calls) = Cardinality(outside) =>
                  [i \in DOMAIN tool_calls |-> tool_calls[i].name]
                      = NamesAt(text, outside)

\* C24 witness: a text with a call line inside a thinking span that covers
\* three lines and closes with a tag in another case, followed by a call line outside it, was parsed: only the
\* second line gave a call
C24_Witness ==
    /\ parse_pc = "returned"
    /\ content = Text(<<"<think>", "ok", "\n", L_noargs, "\n", "</Think>",
                        "\n", L_args>>)
    /\ Len(tool_calls) = 1
    /\ tool_calls[1].name = "list_goals"

---------------------------------------------------------------------------
(* Claims about chat_loop(), checked under HostSpec *)

\* C26 (as claimed): after a completion returned an assistant message with
\* n >= 1 tool calls, the history has gained that assistant message followed
\* by exactly one tool-role message for each of the n calls, each with that
\* call's id and that call's result, for n = 1 and for n >= 2.
C26_OneToolMessagePerCall ==
    round_at # 0 =>
        LET m == history[round_at]
            n == Len(m.tool_calls)
        IN  /\ m.role = "assistant"
            /\ n >= 1
            /\ Len(history) >= round_at + n
            /\ \A k \in 1..n :
                  history[round_at + k] = ToolResultsMessage(m.tool_calls[k])
            /\ Len(history) > round_at + n =>
                  history[round_at + n + 1].role # "tool"

\* C27: for each user input the host calls completion() at most 5 times: as
\* long as it is in the loop every call so far returned tool calls and
\* fewer than 5 have; it leaves the loop at the first response without tool
\* calls, and after the fifth response with tool calls it is back at the
\* prompt without a further call.
C27_AtMostFiveInvocations ==
    /\ host_invocations <= 5
    /\ consecutive_tool_calls <= host_invocations
    /\ host_pc = "loop" =>
          /\ host_invocations = consecutive_tool_calls
          /\ consecutive_tool_calls < 5
    /\ consecutive_tool_calls = 5 => host_pc = "prompt"

\* C27 witness: five responses in a row asked for tool calls and the host
\* is back at the prompt
C27_Witness ==
    /\ host_pc = "prompt"
    /\ host_invocations = 5
    /\ consecutive_tool_calls = 5
    /\ round_at # 0

\* C28 (as claimed): when a completion returned n >= 1 tool calls that the
\* host ran, the transcript the next call of completion() forwards to the
\* provider holds a "Tool '<name>' returned:" line for each of the n calls.
C28_ResultsReachModel ==
    seen_round # 0 =>
        LET m == history[seen_round]
            out == forwarded[OutIndex(history, seen_round)]
        IN  \A k \in DOMAIN m.tool_calls :
                Occurrences(LinePrefix(m.tool_calls[k].name), out.content)
                >= Cardinality({j \in DOMAIN m.tool_calls :
                                   m.tool_calls[j].name = m.tool_calls[k].name})

====
